---------------------------- MODULE Spec2Model ----------------------------
(***************************************************************************)
(* Motion-detection media index: the ingestion function                    *)
(* (cdk/lambda/s3-video-indexer.js), the index query                       *)
(* (webapp/src/lib/videos.ts) and the deletion route                       *)
(* (webapp/src/app/api/videos/[key]/delete/route.ts), together with the    *)
(* two stores they talk to: the S3 bucket and the DynamoDB videos table    *)
(* with its UploadTimeIndex (cdk/lib/motion-detection-stack.ts).           *)
(*                                                                         *)
(* Conventions of the model                                                *)
(*   - an object key is a small integer; KeyDir, KeyWords and KeyExt give  *)
(*     the parts of the string it stands for;                              *)
(*   - an attribute a DynamoDB item does not carry holds a sentinel of the *)
(*     attribute's own type: NoNum, NoStr, <<>>;                           *)
(*   - times are integers: clock units where the code holds a Date (ms), *)
(*     seconds where it holds a Unix timestamp.                            *)
(***************************************************************************)
EXTENDS Integers, Sequences, FiniteSets, TLC

(***************************************************************************)
(* Bounds of the model.                                                    *)
(***************************************************************************)
\* Object keys of the concurrent system (Spec).
NumKeys == 1
\* Object keys of the index the paging specification (SpecPaging) draws.
NumIndexed == 3
\* Deliveries of one key's creation notification (at-least-once delivery).
MaxDeliveries == 2
\* Notification records in one event handed to the ingestion handler.
MaxRecords == 2
\* Signed-in users of the web application.
NumPrincipals == 2
\* Requests to the web API in one behaviour.
MaxRequests == 3
\* Ingestion function instances that may run at the same time.
NumInstances == 2
\* Clock advances in one behaviour.
MaxTicks == 1
\* Resolution of the clock: a Date counts units of 1/UNITS_PER_SECOND second
\* where the code's Date counts milliseconds (of which the code's divisions
\* by 1000 make seconds); real millisecond timestamps do not fit TLC's
\* integers.
UNITS_PER_SECOND == 2
\* Page size of the query: the code's PAGE_SIZE is 50 (videos.ts:15); the
\* model pages by a size small enough for short indexes to span pages.
PAGE_SIZE == 2
\* The player's clock: units of video.currentTime in a second, and the latest
\* time a video reaches.
TIME_UNITS_PER_SECOND == 100
MaxTime == 130
\* List calls counted per key after the removal of its object.
MaxListed == 2
\* Annotation URLs a player is given while it is mounted.
MaxFetches == 3
\* The home page: records in the index it pages over, and clicks on its
\* Next, Previous and Refresh buttons.
NumHomeRecords == 5
MaxNavigations == 5

(***************************************************************************)
(* Program constants.                                                      *)
(***************************************************************************)
\* 90 * 24 * 60 * 60, the retention horizon in seconds.
RETENTION_SECONDS == 7776000
\* Seconds added to endDate's midnight.
SECONDS_PER_DAY == 86400
\* The frame rate of the recordings and the detector's stride in frames.
fps == 20
sampleRate == 10

NoNum == 0 - 1
NoStr == "<absent>"

Keys == 1..NumKeys
IndexedKeys == 1..NumIndexed

Min(a, b) == IF a < b THEN a ELSE b

(***************************************************************************)
(* Object keys and what the edge producer attaches to an object.           *)
(***************************************************************************)
\* Keys the producer does not use for media: one outside the media folder,
\* one in it without the media extension.
OutsideFolderKey == 201
OtherExtensionKey == 101
StrayKeys == {OutsideFolderKey, OtherExtensionKey}
\* The key's folder: the producer's media keys lie in motion_detections/.
KeyDir(k) == IF k = OutsideFolderKey THEN "snapshots" ELSE "motion_detections"
\* The words of the key's last path segment, before the extension.
KeyWords(k) ==
    CASE k % 3 = 1 -> <<"motion", "picamera">>
      [] k % 3 = 2 -> <<"motion", "usb">>
      [] OTHER     -> <<"motion">>
KeyExt(k) == IF k = OtherExtensionKey THEN "jpg" ELSE "mp4"

\* key.split('/').pop()
FileNameOf(k) == [words |-> KeyWords(k), ext |-> KeyExt(k)]
NoFileName == [words |-> <<>>, ext |-> NoStr]

\* fileName.includes(w)
Includes(fileName, w) == \E i \in 1..Len(fileName.words) : fileName.words[i] = w

\* The object's user metadata (headResponse.Metadata), fixed per object: the
\* camera tag, the comma-separated class list ("" stands for a blank entry)
\* and the kind of text in detections_bboxes.
MetaCamera(k) == IF k % 3 = 2 THEN "usb" ELSE NoStr
MetaDetectedObjects(k) == IF k % 2 = 1 THEN <<"person", "", "cat">> ELSE <<>>
MetaBboxes(k) ==
    CASE k % 3 = 1 -> "list"
      [] k % 3 = 2 -> "malformed"
      [] OTHER     -> NoStr
\* Whether the producer stores a _bboxes.json annotation object beside the
\* media object.
HasBboxObject(k) == k % 2 = 1
\* record.s3.object.size of the key's creation notification.
NotifiedSize(k) == 1000 * k

BUCKET == "sbal-motion-detection-bucket"


(***************************************************************************)
(* Ingestion function: the derivation of a record from a notification and  *)
(* the object's HeadObject response (s3-video-indexer.js).                 *)
(***************************************************************************)
\* Math.floor(ms / 1000)
FloorSeconds(ms) == ms \div UNITS_PER_SECOND

\* A slip: the time of the delivery, whatever HeadObject reports.
UploadedAtOfDeliveryTime(lastModifiedMs, nowMs) == FloorSeconds(nowMs)

\* Math.floor((headResponse.LastModified?.getTime() || Date.now()) / 1000):
\* an absent LastModified and a getTime() of 0 are both falsy.
UploadedAtOf(lastModifiedMs, nowMs) ==
    FloorSeconds(IF lastModifiedMs = NoNum \/ lastModifiedMs = 0
                 THEN nowMs ELSE lastModifiedMs)

\* uploadedAt + (90 * 24 * 60 * 60)
TtlOf(uploadedAt) == uploadedAt + RETENTION_SECONDS

\* headResponse.Metadata?.camera || 'unknown', then the filename inference.
CameraTypeOf(metaCamera, fileName) ==
    LET tagged == IF metaCamera = NoStr \/ metaCamera = "" THEN "unknown" ELSE metaCamera
    IN  IF tagged # "unknown" THEN tagged
        ELSE IF Includes(fileName, "picamera") THEN "picamera"
        ELSE IF Includes(fileName, "usb") THEN "usb"
        ELSE "unknown"

\* detected_objects.split(',').map(trim).filter(length > 0)
DetectedObjectsOf(entries) == SelectSeq(entries, LAMBDA e : e # "")

\* The texts the detections_bboxes entry may hold, by what JSON.parse makes
\* of them: NoStr (no entry), "" (an empty entry), "list" (a list of
\* detections), "emptyList" ([]), "malformed" (no JSON), "null", "number",
\* "object" (a JSON object), "string" (a quoted, non-empty text), and
\* "unstorableList" (a list of detections holding a value the table's client
\* refuses: a number beyond the safe integers such as 1e300, or lists nested
\* deeper than 32 levels).
BboxesTexts ==
    {NoStr, "", "list", "emptyList", "malformed", "null", "number", "object",
     "string", "unstorableList"}

\* JSON.parse(text): the value, or that it threw.
JsonParse(text) ==
    IF text = "malformed" THEN [threw |-> TRUE, value |-> "null"]
    ELSE [threw |-> FALSE, value |-> text]

\* value.length: a count for a list or a string, undefined (NoNum) for a
\* number or an object (reading it of null throws, inside the try).
LengthOf(value) ==
    CASE value \in {"list", "unstorableList", "string"} -> 1
      [] value = "emptyList"                            -> 0
      [] OTHER                                          -> NoNum

\* A value in a condition: null is false, a list, an object, a non-empty
\* string and a non-zero number are true.
Truthy(value) == value # "null"

\* Lines 71-84: detectionsBboxes starts as null; a non-empty entry is parsed
\* and the value assigned before line 78 reads its length; a throw of either
\* line is caught and logged.
ParsedBboxes(metaBboxes) ==
    IF metaBboxes = NoStr \/ metaBboxes = "" THEN "null"
    ELSE JsonParse(metaBboxes).value

\* JSON.parse(detections_bboxes) in its try/catch, then the
\* "detectionsBboxes && detectionsBboxes.length > 0" test: only a non-empty
\* list (or another value with a positive length) is stored.
BboxesOf(metaBboxes) ==
    LET detectionsBboxes == ParsedBboxes(metaBboxes)
    IN  IF Truthy(detectionsBboxes) /\ LengthOf(detectionsBboxes) > 0
        THEN detectionsBboxes ELSE NoStr

\* The item the handler builds (lines 87-106).
IngestItem(k, lastModifiedMs, nowMs) ==
    LET fileName   == FileNameOf(k)
        uploadedAt == UploadedAtOf(lastModifiedMs, nowMs)
    IN  [ videoKey         |-> k,
          partition        |-> "all",
          fileName         |-> fileName,
          uploadedAt       |-> uploadedAt,
          size             |-> NotifiedSize(k),
          camera           |-> CameraTypeOf(MetaCamera(k), fileName),
          bucket           |-> BUCKET,
          ttl              |-> TtlOf(uploadedAt),
          detectedObjects  |-> DetectedObjectsOf(MetaDetectedObjects(k)),
          detectionsBboxes |-> BboxesOf(MetaBboxes(k)),
          deleted          |-> NoStr,
          deletedAt        |-> NoNum ]

(***************************************************************************)
(* The videos table: a set of items with primary key videoKey.             *)
(***************************************************************************)
ItemsOf(tbl, k) == {i \in tbl : i.videoKey = k}

\* PutCommand: the item replaces whatever the table holds under its key.
PutItem(tbl, item) == (tbl \ ItemsOf(tbl, item.videoKey)) \cup {item}

\* The item UpdateCommand creates when the key has none: the key and the
\* attributes its SET clause names.
TombstoneOnly(k, deletedAt) ==
    [ videoKey         |-> k,
      partition        |-> NoStr,
      fileName         |-> NoFileName,
      uploadedAt       |-> NoNum,
      size             |-> NoNum,
      camera           |-> NoStr,
      bucket           |-> NoStr,
      ttl              |-> NoNum,
      detectedObjects  |-> <<>>,
      detectionsBboxes |-> NoStr,
      deleted          |-> "true",
      deletedAt        |-> deletedAt ]

\* A slip: the tombstone written with a PutCommand of the key and the two
\* attributes, which replaces the item.
UpdateTombstoneReplacingItem(tbl, k, deletedAt) ==
    (tbl \ ItemsOf(tbl, k)) \cup {TombstoneOnly(k, deletedAt)}

\* A slip: the flag flipped where the code sets it.
UpdateTombstoneToggled(tbl, k, deletedAt) ==
    IF ItemsOf(tbl, k) = {}
    THEN tbl \cup {TombstoneOnly(k, deletedAt)}
    ELSE (tbl \ ItemsOf(tbl, k)) \cup
         {[i EXCEPT !.deleted = IF @ = "true" THEN "false" ELSE "true",
                    !.deletedAt = deletedAt] : i \in ItemsOf(tbl, k)}

\* UpdateCommand with "SET deleted = :deleted, deletedAt = :deletedAt" and no
\* condition: the two attributes are set on the key's item, which UpdateItem
\* creates when it does not exist.
UpdateTombstone(tbl, k, deletedAt) ==
    IF ItemsOf(tbl, k) = {}
    THEN tbl \cup {TombstoneOnly(k, deletedAt)}
    ELSE (tbl \ ItemsOf(tbl, k)) \cup
         {[i EXCEPT !.deleted = "true", !.deletedAt = deletedAt] : i \in ItemsOf(tbl, k)}

\* The table's TTL: an item whose ttl attribute lies in the past may be
\* removed by the store at any later time.
Expired(item, nowMs) == item.ttl # NoNum /\ item.ttl < FloorSeconds(nowMs)


(***************************************************************************)
(* UploadTimeIndex: the global secondary index with partition key          *)
(* "partition" and sort key "uploadedAt" (motion-detection-stack.ts), and  *)
(* DynamoDB's Query on it.                                                 *)
(***************************************************************************)
\* An item is in the index only if it carries both index key attributes.
IndexEntries(tbl) == {i \in tbl : i.partition # NoStr /\ i.uploadedAt # NoNum}

\* A key of the index as Query takes and returns it (ExclusiveStartKey,
\* LastEvaluatedKey): the index key attributes and the table's primary key.
\* shape "other" stands for any value that is not such a map.
NoStartKey == [shape |-> "none", videoKey |-> 0, partition |-> NoStr, uploadedAt |-> NoNum]
OtherValue == [shape |-> "other", videoKey |-> 0, partition |-> NoStr, uploadedAt |-> NoNum]
IndexKeyOf(item) ==
    [shape |-> "key", videoKey |-> item.videoKey,
     partition |-> item.partition, uploadedAt |-> item.uploadedAt]

\* A slip: ScanIndexForward left at its default, ascending.
ScansBeforeAscending(a, b) ==
    \/ a.uploadedAt < b.uploadedAt
    \/ a.uploadedAt = b.uploadedAt /\ a.videoKey < b.videoKey

\* ScanIndexForward: false. Descending by the sort key; items with equal
\* sort keys follow the table's primary key, descending.
ScansBefore(a, b) ==
    \/ a.uploadedAt > b.uploadedAt
    \/ a.uploadedAt = b.uploadedAt /\ a.videoKey > b.videoKey

RECURSIVE ScanOrder(_)
ScanOrder(S) ==
    IF S = {} THEN <<>>
    ELSE LET first == CHOOSE i \in S : \A j \in S \ {i} : ScansBefore(i, j)
         IN  <<first>> \o ScanOrder(S \ {first})

\* KeyConditionExpression: the partition and the optional bounds on the sort
\* key (NoNum: no bound), both inclusive (BETWEEN, >=, <=).
InKeyRange(uploadedAt, lo, hi) ==
    /\ (lo = NoNum \/ uploadedAt >= lo)
    /\ (hi = NoNum \/ uploadedAt <= hi)
KeyCondition(item, lo, hi) ==
    item.partition = "all" /\ InKeyRange(item.uploadedAt, lo, hi)

\* FilterExpression as DynamoDB parses the joined text: AND binds tighter
\* than OR, so
\*   attribute_not_exists(deleted) OR deleted = :notDeleted AND #camera = :camera
\* is  attribute_not_exists(deleted) OR (deleted = :notDeleted AND #camera = :camera).
FilterExpression(item, camera) ==
    IF camera = NoStr
    THEN item.deleted = NoStr \/ item.deleted = "false"
    ELSE item.deleted = NoStr \/ (item.deleted = "false" /\ item.camera = camera)

\* Query rejects a start key that is not a key of the index or that lies
\* outside the key condition, and a BETWEEN whose bounds are inverted
\* (ValidationException).
StartKeyRejected(esk, lo, hi) ==
    \/ lo # NoNum /\ hi # NoNum /\ lo > hi
    \/ esk.shape = "other"
    \/ esk.shape = "key" /\ ~(esk.partition = "all" /\ InKeyRange(esk.uploadedAt, lo, hi))

\* A slip: a cursor that holds the sort key alone resumes after every item
\* with that capture time.
StartsAfterSortKeyOnly(esk, item) == item.uploadedAt < esk.uploadedAt

\* ExclusiveStartKey: the read resumes strictly after the key's position.
StartsAfter(esk, item) == ScansBefore(esk, item)

\* A slip: a store whose cursors die with their records, refusing a start
\* key whose item has been tombstoned.
QueryRefusingTombstonedStartKey(tbl, lo, hi, esk, camera, limit) ==
    LET inRange == {i \in IndexEntries(tbl) : KeyCondition(i, lo, hi)}
        after   == IF esk.shape = "key"
                   THEN {i \in inRange : StartsAfter(esk, i)}
                   ELSE inRange
        ordered == ScanOrder(after)
        read    == SubSeq(ordered, 1, Min(limit, Len(ordered)))
        dead    == /\ esk.shape = "key"
                   /\ \E i \in tbl : i.videoKey = esk.videoKey /\ i.deleted = "true"
    IN  IF StartKeyRejected(esk, lo, hi) \/ dead
        THEN [error |-> TRUE, Items |-> <<>>, LastEvaluatedKey |-> NoStartKey]
        ELSE [error |-> FALSE,
              Items |-> SelectSeq(read, LAMBDA i : FilterExpression(i, camera)),
              LastEvaluatedKey |->
                  IF Len(ordered) >= limit /\ limit > 0
                  THEN IndexKeyOf(read[limit]) ELSE NoStartKey]

\* Query: at most `limit` items after the start key are read in scan order,
\* the filter is applied to the items read, and LastEvaluatedKey is the key
\* of the last item read when the limit stopped the read.
Query(tbl, lo, hi, esk, camera, limit) ==
    LET inRange == {i \in IndexEntries(tbl) : KeyCondition(i, lo, hi)}
        after   == IF esk.shape = "key"
                   THEN {i \in inRange : StartsAfter(esk, i)}
                   ELSE inRange
        ordered == ScanOrder(after)
        read    == SubSeq(ordered, 1, Min(limit, Len(ordered)))
    IN  IF StartKeyRejected(esk, lo, hi)
        THEN [error |-> TRUE, Items |-> <<>>, LastEvaluatedKey |-> NoStartKey]
        ELSE [error |-> FALSE,
              Items |-> SelectSeq(read, LAMBDA i : FilterExpression(i, camera)),
              LastEvaluatedKey |->
                  IF Len(ordered) >= limit /\ limit > 0
                  THEN IndexKeyOf(read[limit]) ELSE NoStartKey]

(***************************************************************************)
(* listVideosFromDynamoDB (webapp/src/lib/videos.ts).                      *)
(***************************************************************************)
\* A continuation token: the text its base64 decoding gives, which is JSON
\* text of some value or is not JSON. Buffer.from(_, 'base64') skips what is
\* not base64 and never throws, so a corrupted token is one of the two too.
NoToken == [given |-> FALSE, json |-> FALSE, value |-> NoStartKey]
GarbageToken == [given |-> TRUE, json |-> FALSE, value |-> NoStartKey]
\* Buffer.from(JSON.stringify(key)).toString('base64')
EncodeToken(value) == [given |-> TRUE, json |-> TRUE, value |-> value]

\* Lines 43-50: JSON.parse of the decoded token; a parse error is caught and
\* leaves exclusiveStartKey undefined.
ParseToken(token) ==
    IF ~token.given THEN NoStartKey
    ELSE IF ~token.json THEN NoStartKey
    ELSE token.value

\* new Date("YYYY-MM-DD").getTime(): midnight UTC of the day. A date is
\* the number of its day since the epoch; NoNum: no date given.
DateMs(day) == day * SECONDS_PER_DAY * UNITS_PER_SECOND

\* Lines 81-101: the bounds of the key condition.
StartTimestamp(startDate) ==
    IF startDate = NoNum THEN NoNum ELSE FloorSeconds(DateMs(startDate))
EndTimestamp(endDate) ==
    IF endDate = NoNum THEN NoNum ELSE FloorSeconds(DateMs(endDate)) + SECONDS_PER_DAY

\* Lines 118-126.
VideoMetadataOf(item) ==
    [ videoKey |-> item.videoKey, fileName |-> item.fileName,
      uploadedAt |-> item.uploadedAt, size |-> item.size,
      camera |-> item.camera, bucket |-> item.bucket,
      detectedObjects |-> item.detectedObjects ]

RECURSIVE MapVideos(_)
MapVideos(items) ==
    IF items = <<>> THEN <<>>
    ELSE <<VideoMetadataOf(Head(items))>> \o MapVideos(Tail(items))

\* A slip: hasMore told from a full page, where the code goes by the
\* LastEvaluatedKey.
ListVideosFullPageHasMore(tbl, token, camera, startDate, endDate) ==
    LET response == Query(tbl, StartTimestamp(startDate), EndTimestamp(endDate),
                          ParseToken(token), camera, PAGE_SIZE)
    IN  IF response.error
        THEN [error |-> TRUE, videos |-> <<>>, nextToken |-> NoToken, hasMore |-> FALSE]
        ELSE [error |-> FALSE,
              videos |-> MapVideos(response.Items),
              nextToken |-> IF response.LastEvaluatedKey.shape = "key"
                            THEN EncodeToken(response.LastEvaluatedKey) ELSE NoToken,
              hasMore |-> Len(response.Items) = PAGE_SIZE]

\* The whole function: error is the exception it rethrows.
ListVideos(tbl, token, camera, startDate, endDate) ==
    LET response == Query(tbl, StartTimestamp(startDate), EndTimestamp(endDate),
                          ParseToken(token), camera, PAGE_SIZE)
    IN  IF response.error
        THEN [error |-> TRUE, videos |-> <<>>, nextToken |-> NoToken, hasMore |-> FALSE]
        ELSE [error |-> FALSE,
              videos |-> MapVideos(response.Items),
              nextToken |-> IF response.LastEvaluatedKey.shape = "key"
                            THEN EncodeToken(response.LastEvaluatedKey) ELSE NoToken,
              hasMore |-> response.LastEvaluatedKey.shape = "key"]


(***************************************************************************)
(* State.                                                                  *)
(***************************************************************************)
VARIABLES
    home,       \* the home page: its page of videos and its pagination state
    listedAfterRemoval, \* per key, the list calls that returned it after its object was removed
    player,     \* the video player component: its video, its detections and its canvas
    meta,       \* the user metadata HeadObject reports for the object being indexed
    now,        \* Date.now(), in clock units
    ticks,      \* clock advances so far
    objects,    \* the bucket's media objects: key -> [exists, created, lastModified]
    bboxes,     \* keys whose _bboxes.json annotation object exists
    table,      \* the videos table: a set of items
    ing,        \* ingestion instances: [pc, key, item]
    delivered,  \* deliveries of each key's creation notification so far
    putLog,     \* per key, the items ingestion deliveries have written, in order
    del,        \* the DELETE request being served and how it ended
    tombstoned, \* keys whose tombstone write has succeeded
    lastList,   \* the latest list call: its arguments and what it returned
    trav,       \* a traversal: paging from the start, cursor to cursor
    api,        \* the latest request to the web API and its response
    stars,      \* the starred-videos table: a set of items
    run         \* a run of the ingestion handler over an event of several records

vars == <<home, listedAfterRemoval, player, meta, now, ticks, objects, bboxes, table, ing, delivered, putLog, del,
          tombstoned, lastList, trav, api, stars, run>>
(***************************************************************************)
(* The video player (VideoPlayer): overlay frame selection.                *)
(***************************************************************************)
\* Math.floor and Math.round of the non-negative quotient num / den; round
\* takes a half upwards.
MathFloor(num, den) == num \div den
\* A slip: the quotient truncated.
MathRoundTruncated(num, den) == num \div den
MathRound(num, den) == (2 * num + den) \div (2 * den)

\* Lines 361-368.
CurrentFrameIndex(currentTime) == MathFloor(currentTime * fps, TIME_UNITS_PER_SECOND)
ClosestSampledFrame(currentFrameIndex) ==
    MathRound(currentFrameIndex, sampleRate) * sampleRate

\* Lines 371-373.
VisibleDetections(detections, currentTime) ==
    {d \in detections :
        d.frame_index = ClosestSampledFrame(CurrentFrameIndex(currentTime))}

\* The annotation files behind the URLs a player may be given: lists of
\* detections, each with the frame it was made on. File "b" has a detection
\* on a frame that is no multiple of the stride; file "c" is an empty list.
BboxUrls == {"a", "b", "c"}
BboxFileAt(url) ==
    LET frames == CASE url = "a" -> <<0, 10, 10, 20>>
                    [] url = "b" -> <<5, 10, 30>>
                    [] OTHER     -> <<>>
    IN  {[url |-> url, n |-> n, frame_index |-> frames[n]] : n \in 1..Len(frames)}

\* useState(null) and useState(true): no detections, boxes shown; a video
\* whose metadata has not loaded has width 0 and stands at time 0.
NoDetections == [present |-> FALSE, list |-> {}]
NoPlayer ==
    [bboxUrl |-> NoStr, fetches |-> <<>>, loadingBboxes |-> FALSE,
     detections |-> NoDetections, showBboxes |-> TRUE,
     videoWidth |-> 0, currentTime |-> 0, drawn |-> {}]

\* Line 517: the canvas is rendered while there are detections.
HasCanvas(p) == p.detections.present /\ p.detections.list # {}

\* drawBoundingBoxes (lines 337-414): what is on the canvas afterwards.
DrawBoundingBoxes(p) ==
    IF ~HasCanvas(p) \/ ~p.detections.present \/ ~p.showBboxes THEN p
    ELSE IF p.videoWidth = 0 THEN [p EXCEPT !.drawn = {}]
    ELSE [p EXCEPT !.drawn = VisibleDetections(p.detections.list, p.currentTime)]

\* No list call has returned a key whose object was removed.
NoneListed == [k \in Keys |-> 0]

\* The home page before it is mounted (useState, page.tsx lines 212-221) and
\* with no request to the list route under way.
NoFetch == [sent |-> FALSE, token |-> NoToken, navigatingBack |-> FALSE]
NoHome ==
    [mounted |-> FALSE, loading |-> TRUE, error |-> FALSE, videos |-> <<>>,
     hasMore |-> FALSE, continuationToken |-> NoToken, previousTokens |-> <<>>,
     currentPage |-> 0, request |-> NoFetch, last |-> "none", clicks |-> 0]

\* No user metadata.
NoMetadata == [camera |-> NoStr, detected_objects |-> <<>>, detections_bboxes |-> NoStr]
\* The clock, the stores and the requests on them.
stores == <<now, ticks, objects, bboxes, table, ing, delivered, putLog, del,
            tombstoned, lastList, trav, api, stars, run>>
\* The state of the parts specified on their own.
parts == <<home, listedAfterRemoval, player, meta>>

Instances == 1..NumInstances

\* The clock starts within the last second of day 1.
StartMs == 172799 * UNITS_PER_SECOND + 1
\* A clock advance: a second and a fraction.
TickStep == UNITS_PER_SECOND + 1

NoObject == [exists |-> FALSE, created |-> FALSE, lastModified |-> NoNum]
IdleInstance == [pc |-> "idle", key |-> 0, item |-> TombstoneOnly(0, NoNum)]
IdleDelete ==
    [pc |-> "idle", key |-> 0, status |-> 0, step1ok |-> FALSE,
     bboxDeleteSent |-> FALSE, updateAttempts |-> 0, tombstoneWritten |-> FALSE,
     failedStep |-> 0, again |-> FALSE]
NoList ==
    [called |-> FALSE, token |-> NoToken, camera |-> NoStr, startDate |-> NoNum,
     endDate |-> NoNum, tombstonedBefore |-> {},
     result |-> [error |-> FALSE, videos |-> <<>>, nextToken |-> NoToken, hasMore |-> FALSE]]
NoTraversal ==
    [active |-> FALSE, done |-> FALSE, camera |-> NoStr, startDate |-> NoNum,
     endDate |-> NoNum, token |-> NoToken, pages |-> <<>>, failed |-> FALSE]

\* A session as getServerSession gives it to a route: none, or a signed-in
\* user, whose e-mail address (a principal's number here) may be missing.
Principals == 1..NumPrincipals
NoSession == [signedIn |-> FALSE, email |-> NoNum]
Sessions ==
    {NoSession} \cup {[signedIn |-> TRUE, email |-> e] : e \in Principals \cup {NoNum}}

\* No request to the web API yet.
NoRequest ==
    [served |-> 0, route |-> "none", session |-> NoSession, status |-> 0,
     storeCalls |-> 0, failAt |-> 0, encoding |-> NoStr, key |-> 0,
     action |-> NoStr, wasStarred |-> FALSE,
     camera |-> NoStr, startDate |-> NoNum, endDate |-> NoNum,
     videos |-> <<>>, starred |-> <<>>]
\* No event handed to the ingestion handler yet.
NoRun ==
    [pc |-> "idle", event |-> <<>>, pos |-> 0, attempts |-> 0,
     item |-> TombstoneOnly(0, NoNum), reads |-> {}, writes |-> {},
     failures |-> 0, outcome |-> "none"]

\* The stores empty and nothing in progress.
InitStores ==
    /\ now = StartMs
    /\ ticks = 0
    /\ objects = [k \in Keys |-> NoObject]
    /\ bboxes = {}
    /\ table = {}
    /\ ing = [n \in Instances |-> IdleInstance]
    /\ delivered = [k \in Keys |-> 0]
    /\ putLog = [k \in Keys |-> <<>>]
    /\ del = IdleDelete
    /\ tombstoned = {}
    /\ lastList = NoList
    /\ trav = NoTraversal
    /\ api = NoRequest
    /\ stars = {}
    /\ run = NoRun

Init ==
    /\ InitStores
    /\ meta = NoMetadata
    /\ home = NoHome
    /\ listedAfterRemoval = NoneListed
    /\ player = NoPlayer

(***************************************************************************)
(* Environment: the clock and the edge producer.                           *)
(***************************************************************************)
Tick ==
    /\ ticks < MaxTicks
    /\ now' = now + TickStep
    /\ ticks' = ticks + 1
    /\ UNCHANGED <<parts, api, stars, run, objects, bboxes, table, ing, delivered, putLog, del,
                   tombstoned, lastList, trav>>

\* The edge producer stores a media object under a key never used before
\* (names carry the capture time), with its annotation object if it has one.
\* HeadObject reports the time of the upload in whole seconds, or no
\* LastModified at all.
Upload(k, hasLastModified) ==
    /\ ~objects[k].created
    /\ objects' = [objects EXCEPT ![k] =
          [exists |-> TRUE, created |-> TRUE,
           lastModified |-> IF hasLastModified
                            THEN FloorSeconds(now) * UNITS_PER_SECOND ELSE NoNum]]
    /\ bboxes' = IF HasBboxObject(k) THEN bboxes \cup {k} ELSE bboxes
    /\ UNCHANGED <<parts, api, stars, run, now, ticks, table, ing, delivered, putLog, del, tombstoned,
                   lastList, trav>>

(***************************************************************************)
(* Ingestion function: one instance per delivery of a notification; the    *)
(* handler awaits HeadObject, then PutCommand.                             *)
(***************************************************************************)
\* A delivery of k's creation notification starts an instance, whose
\* HeadObject succeeds: the item is built from the response (lines 24-106).
IngestHead(n, k) ==
    /\ ing[n].pc = "idle"
    /\ objects[k].created
    /\ delivered[k] < MaxDeliveries
    /\ objects[k].exists
    /\ delivered' = [delivered EXCEPT ![k] = @ + 1]
    /\ ing' = [ing EXCEPT ![n] =
          [pc |-> "put", key |-> k,
           item |-> IngestItem(k, objects[k].lastModified, now)]]
    /\ UNCHANGED <<parts, api, stars, run, now, ticks, objects, bboxes, table, putLog, del, tombstoned,
                   lastList, trav>>

\* HeadObject fails (the object is gone, or the store is unavailable): the
\* handler rethrows and writes nothing (lines 114-117).
IngestHeadFail(n, k) ==
    /\ ing[n].pc = "idle"
    /\ objects[k].created
    /\ delivered[k] < MaxDeliveries
    /\ delivered' = [delivered EXCEPT ![k] = @ + 1]
    /\ UNCHANGED <<parts, api, stars, run, now, ticks, objects, bboxes, table, ing, putLog, del,
                   tombstoned, lastList, trav>>

\* The PutCommand of lines 108-111.
IngestPut(n) ==
    /\ ing[n].pc = "put"
    /\ table' = PutItem(table, ing[n].item)
    /\ putLog' = [putLog EXCEPT ![ing[n].key] = Append(@, ing[n].item)]
    /\ ing' = [ing EXCEPT ![n] = IdleInstance]
    /\ UNCHANGED <<parts, api, stars, run, now, ticks, objects, bboxes, delivered, del, tombstoned,
                   lastList, trav>>

\* The PutCommand fails: the handler rethrows.
IngestPutFail(n) ==
    /\ ing[n].pc = "put"
    /\ ing' = [ing EXCEPT ![n] = IdleInstance]
    /\ UNCHANGED <<parts, api, stars, run, now, ticks, objects, bboxes, table, delivered, putLog, del,
                   tombstoned, lastList, trav>>


(***************************************************************************)
(* Deletion route: DELETE /api/videos/[key]/delete, for a signed-in viewer *)
(* and a key that decodes to k. The handler awaits three store calls.      *)
(***************************************************************************)
\* Whether the table holds the key's record tombstoned, as a repeated
\* request finds it.
AlreadyTombstoned(k) == \E i \in ItemsOf(table, k) : i.deleted = "true"

\* What the request remembers once step 1 has succeeded (lines 41-46).
AfterVideoDelete(k) ==
    [pc |-> "step2", key |-> k, status |-> 0, step1ok |-> TRUE,
     bboxDeleteSent |-> FALSE, updateAttempts |-> 0, tombstoneWritten |-> FALSE,
     failedStep |-> 0, again |-> AlreadyTombstoned(k)]

\* A slip: step 1 wrapped in a catch of its own, as step 2 is.
AfterVideoDeleteFailureSwallowed(k) ==
    [pc |-> "step2", key |-> k, status |-> 0, step1ok |-> FALSE,
     bboxDeleteSent |-> FALSE, updateAttempts |-> 0, tombstoneWritten |-> FALSE,
     failedStep |-> 1, again |-> AlreadyTombstoned(k)]

\* What it is when step 1 throws: the outer catch answers 500 (lines 80-86).
AfterVideoDeleteFailure(k) ==
    [pc |-> "done", key |-> k, status |-> 500, step1ok |-> FALSE,
     bboxDeleteSent |-> FALSE, updateAttempts |-> 0, tombstoneWritten |-> FALSE,
     failedStep |-> 1, again |-> AlreadyTombstoned(k)]

\* Step 1: DeleteObjectCommand on the video succeeds (also when the bucket
\* no longer holds the object). The viewer names a key the producer has
\* used: one it was shown, or one not ingested yet.
DeleteStep1(k) ==
    /\ del.pc \in {"idle", "done"}
    /\ objects[k].created
    /\ objects' = [objects EXCEPT ![k].exists = FALSE]
    /\ del' = AfterVideoDelete(k)
    /\ UNCHANGED <<parts, api, stars, run, now, ticks, bboxes, table, ing, delivered, putLog,
                   tombstoned, lastList, trav>>

\* Step 1 throws.
DeleteStep1Fail(k) ==
    /\ del.pc \in {"idle", "done"}
    /\ objects[k].created
    /\ del' = AfterVideoDeleteFailure(k)
    /\ UNCHANGED <<parts, api, stars, run, now, ticks, objects, bboxes, table, ing, delivered, putLog,
                   tombstoned, lastList, trav>>

\* Step 2: DeleteObjectCommand on the annotation object (lines 48-55).
DeleteStep2 ==
    /\ del.pc = "step2"
    /\ bboxes' = bboxes \ {del.key}
    /\ del' = [del EXCEPT !.pc = "step3", !.bboxDeleteSent = TRUE]
    /\ UNCHANGED <<parts, api, stars, run, now, ticks, objects, table, ing, delivered, putLog,
                   tombstoned, lastList, trav>>

\* A slip: the annotation delete without a catch of its own, so that its
\* failure reaches the outer catch.
AfterBboxDeleteFailureRethrown(d) ==
    [d EXCEPT !.pc = "done", !.status = 500, !.failedStep = 2]

\* What the request is when step 2 throws: the inner catch logs and the
\* handler goes on to step 3 (lines 56-61).
AfterBboxDeleteFailure(d) == [d EXCEPT !.pc = "step3", !.failedStep = 2]

\* Step 2 throws.
DeleteStep2Fail ==
    /\ del.pc = "step2"
    /\ del' = AfterBboxDeleteFailure(del)
    /\ UNCHANGED <<parts, api, stars, run, now, ticks, objects, bboxes, table, ing, delivered, putLog,
                   tombstoned, lastList, trav>>

\* What the request is once the UpdateCommand has succeeded (lines 74-79).
AfterTombstone(d) ==
    [d EXCEPT !.pc = "done", !.status = 200, !.updateAttempts = @ + 1,
              !.tombstoneWritten = TRUE]

\* A slip: the failed update logged and the request answered as a success.
AfterTombstoneFailureSwallowed(d) ==
    [d EXCEPT !.pc = "done", !.status = 200, !.updateAttempts = @ + 1,
              !.failedStep = 3]

\* What it is when the UpdateCommand throws: the outer catch answers 500 and
\* the handler returns (lines 80-86).
AfterTombstoneFailure(d) ==
    [d EXCEPT !.pc = "done", !.status = 500, !.updateAttempts = @ + 1,
              !.failedStep = 3]

\* Step 3: the UpdateCommand of lines 61-74.
DeleteStep3 ==
    /\ del.pc = "step3"
    /\ table' = UpdateTombstone(table, del.key, FloorSeconds(now))
    /\ tombstoned' = tombstoned \cup {del.key}
    /\ del' = AfterTombstone(del)
    /\ UNCHANGED <<parts, api, stars, run, now, ticks, objects, bboxes, ing, delivered, putLog,
                   lastList, trav>>

\* Step 3 throws.
DeleteStep3Fail ==
    /\ del.pc = "step3"
    /\ del' = AfterTombstoneFailure(del)
    /\ UNCHANGED <<parts, api, stars, run, now, ticks, objects, bboxes, table, ing, delivered, putLog,
                   tombstoned, lastList, trav>>

(***************************************************************************)
(* Query service: one call of listVideosFromDynamoDB.                      *)
(***************************************************************************)
Cameras == {"picamera", "usb", "unknown"}

ListCall(token, camera, startDate, endDate) ==
    [called |-> TRUE, token |-> token, camera |-> camera, startDate |-> startDate,
     endDate |-> endDate, tombstonedBefore |-> tombstoned,
     result |-> ListVideos(table, token, camera, startDate, endDate)]

\* A first-page call, with or without a camera.
List(camera) ==
    /\ lastList' = ListCall(NoToken, camera, NoNum, NoNum)
    /\ UNCHANGED <<parts, api, stars, run, now, ticks, objects, bboxes, table, ing, delivered, putLog,
                   del, tombstoned, trav>>

Next ==
    \/ Tick
    \/ \E k \in Keys, lm \in BOOLEAN : Upload(k, lm)
    \/ \E n \in Instances, k \in Keys : IngestHead(n, k)
    \/ \E n \in Instances, k \in Keys : IngestHeadFail(n, k)
    \/ \E n \in Instances : IngestPut(n)
    \/ \E n \in Instances : IngestPutFail(n)
    \/ \E k \in Keys : DeleteStep1(k)
    \/ \E k \in Keys : DeleteStep1Fail(k)
    \/ DeleteStep2
    \/ DeleteStep2Fail
    \/ DeleteStep3
    \/ DeleteStep3Fail
    \/ \E camera \in Cameras \cup {NoStr} : List(camera)

Spec == Init /\ [][Next]_vars

(***************************************************************************)
(* List calls counted while a deletion is under way.                       *)
(***************************************************************************)
\* The count of each key after a list call that returned `videos`: a key
\* whose object was there and has been removed is counted when returned.
CountListed(counts, videos) ==
    [k \in Keys |->
        IF /\ objects[k].created /\ ~objects[k].exists
           /\ \E n \in 1..Len(videos) : videos[n].videoKey = k
        THEN counts[k] + 1 ELSE counts[k]]

\* A first-page call, counted.
ListCounted(camera) ==
    /\ \A k \in Keys : listedAfterRemoval[k] < MaxListed
    /\ lastList' = ListCall(NoToken, camera, NoNum, NoNum)
    /\ listedAfterRemoval' = CountListed(listedAfterRemoval, lastList'.result.videos)
    /\ UNCHANGED <<home, player, meta, api, stars, run, now, ticks, objects,
                   bboxes, table, ing, delivered, putLog, del, tombstoned, trav>>

NextListing ==
    \/ Tick
    \/ \E k \in Keys, lm \in BOOLEAN : Upload(k, lm)
    \/ \E n \in Instances, k \in Keys : IngestHead(n, k)
    \/ \E n \in Instances, k \in Keys : IngestHeadFail(n, k)
    \/ \E n \in Instances : IngestPut(n)
    \/ \E n \in Instances : IngestPutFail(n)
    \/ \E k \in Keys : DeleteStep1(k)
    \/ \E k \in Keys : DeleteStep1Fail(k)
    \/ DeleteStep2
    \/ DeleteStep2Fail
    \/ DeleteStep3
    \/ DeleteStep3Fail
    \/ \E camera \in Cameras \cup {NoStr} : ListCounted(camera)

SpecListing == Init /\ [][NextListing]_vars


(***************************************************************************)
(* The player with its detections loaded: the video's events redraw the    *)
(* overlay.                                                                *)
(***************************************************************************)
InitOverlay ==
    /\ InitStores
    /\ meta = NoMetadata
    /\ home = NoHome
    /\ listedAfterRemoval = NoneListed
    /\ player \in
          {NoPlayer}
          \cup {[NoPlayer EXCEPT !.bboxUrl = url,
                                 !.detections = [present |-> TRUE,
                                                 list |-> BboxFileAt(url)]] :
                   url \in BboxUrls}

\* loadedmetadata: the video has its dimensions; handleLoadedMetadata sizes
\* the canvas and redraws (lines 417-440).
LoadedMetadata ==
    /\ player.videoWidth = 0
    /\ player' = DrawBoundingBoxes([player EXCEPT !.videoWidth = 640])
    /\ UNCHANGED <<stores, meta, listedAfterRemoval, home>>

\* timeupdate, play, pause or seeked with the video at time t: the listeners
\* of lines 464-475 redraw.
VideoEvent(t) ==
    /\ player' = DrawBoundingBoxes([player EXCEPT !.currentTime = t])
    /\ UNCHANGED <<stores, meta, listedAfterRemoval, home>>

\* The Hide Boxes / Show Boxes button (line 525) and the effect of lines
\* 488-500: redraw when shown, clear when hidden.
ToggleBoxes ==
    /\ HasCanvas(player)
    /\ player' = IF player.showBboxes
                 THEN [player EXCEPT !.showBboxes = FALSE, !.drawn = {}]
                 ELSE DrawBoundingBoxes([player EXCEPT !.showBboxes = TRUE])
    /\ UNCHANGED <<stores, meta, listedAfterRemoval, home>>

NextOverlay ==
    \/ LoadedMetadata
    \/ \E t \in 0..MaxTime : VideoEvent(t)
    \/ ToggleBoxes

SpecOverlay == InitOverlay /\ [][NextOverlay]_vars

(***************************************************************************)
(* The player's annotation fetch (the effect of lines 443-457): each       *)
(* change of bboxUrl starts a fetch; the fetches settle in any order.      *)
(***************************************************************************)
\* setDetections: the canvas, and what is drawn on it, stays while there
\* are detections before and after (line 517).
SetDetections(p, detections) ==
    [p EXCEPT !.detections = detections,
              !.drawn = IF HasCanvas(p) /\ detections.present /\ detections.list # {}
                        THEN @ ELSE {}]

\* The parent renders the player with another bboxUrl (NoStr: null) and the
\* effect runs: a fetch starts, or the detections are cleared.
ChangeBboxUrl(url) ==
    /\ url # player.bboxUrl
    /\ Len(player.fetches) < MaxFetches
    /\ player' =
          IF url # NoStr
          THEN [player EXCEPT !.bboxUrl = url, !.loadingBboxes = TRUE,
                              !.fetches = Append(@, [url |-> url, state |-> "pending"])]
          ELSE SetDetections([player EXCEPT !.bboxUrl = url], NoDetections)
    /\ UNCHANGED <<stores, meta, listedAfterRemoval, home>>

\* The response of fetch n arrives and is JSON: lines 447-448 and 453.
FetchResolves(n) ==
    /\ player.fetches[n].state = "pending"
    /\ player' = SetDetections(
          [player EXCEPT !.fetches[n].state = "resolved", !.loadingBboxes = FALSE],
          [present |-> TRUE, list |-> BboxFileAt(player.fetches[n].url)])
    /\ UNCHANGED <<stores, meta, listedAfterRemoval, home>>

\* Fetch n fails, or its response is no JSON (the bucket's answer for a
\* missing object): lines 449-453.
FetchRejects(n) ==
    /\ player.fetches[n].state = "pending"
    /\ player' = SetDetections(
          [player EXCEPT !.fetches[n].state = "rejected", !.loadingBboxes = FALSE],
          NoDetections)
    /\ UNCHANGED <<stores, meta, listedAfterRemoval, home>>

NextPlayer ==
    \/ \E url \in BboxUrls \cup {NoStr} : ChangeBboxUrl(url)
    \/ \E n \in 1..Len(player.fetches) : FetchResolves(n)
    \/ \E n \in 1..Len(player.fetches) : FetchRejects(n)

SpecPlayer == Init /\ [][NextPlayer]_vars

(***************************************************************************)
(* Paging over an index that does not change: the table is drawn from the  *)
(* items the ingestion function and the deletion route write, and the      *)
(* only steps are list calls.                                              *)
(***************************************************************************)
\* Capture times around the end of day 1: its last second, the midnight
\* after it, and one second later.
PagingTimes == {2 * SECONDS_PER_DAY - 1, 2 * SECONDS_PER_DAY, 2 * SECONDS_PER_DAY + 1}
\* The clock of the paging specification: the two earlier capture times
\* have passed their retention horizon, the latest has not.
PagingNow == (2 * SECONDS_PER_DAY + 1 + RETENTION_SECONDS) * UNITS_PER_SECOND
\* When the drawn tombstones were written.
PagingDeletedAt == 2 * SECONDS_PER_DAY + 2

\* What the table may hold under a key: an item ingestion wrote, with the
\* deleted attribute absent, true (tombstoned by the deletion route) or
\* false (the value the query's filter also accepts), or the tombstone of a
\* key that was never ingested, which the index does not contain.
ItemStates ==
    [kind : {"item"}, uploadedAt : PagingTimes, deleted : {NoStr, "false", "true"}]
    \cup {[kind |-> "tombstone", uploadedAt |-> NoNum, deleted |-> "true"]}

DrawnItem(k, st) ==
    LET put == IngestItem(k, st.uploadedAt * UNITS_PER_SECOND, PagingNow)
    IN  CASE st.kind = "tombstone" -> TombstoneOnly(k, PagingDeletedAt)
          [] st.deleted = "true" ->
                CHOOSE i \in UpdateTombstone({put}, k, PagingDeletedAt) : TRUE
          [] OTHER -> [put EXCEPT !.deleted = st.deleted]

InitPaging ==
    /\ now = PagingNow
    /\ ticks = 0
    /\ objects = [k \in Keys |-> NoObject]
    /\ bboxes = {}
    /\ \E f \in [IndexedKeys -> ItemStates] :
          table = {DrawnItem(k, f[k]) : k \in IndexedKeys}
    /\ ing = [n \in Instances |-> IdleInstance]
    /\ delivered = [k \in Keys |-> 0]
    /\ putLog = [k \in Keys |-> <<>>]
    /\ del = IdleDelete
    /\ tombstoned = {}
    /\ lastList = NoList
    /\ trav = NoTraversal
    /\ api = NoRequest
    /\ stars = {}
    /\ run = NoRun
    /\ meta = NoMetadata
    /\ home = NoHome
    /\ listedAfterRemoval = NoneListed
    /\ player = NoPlayer

\* The filters of the paging specification.
PagingCameras == {NoStr, "picamera", "usb"}
PagingStartDates == {NoNum, 2}
PagingEndDates == {NoNum, 1}
\* Tokens a caller may send: none, text that is not JSON, JSON that is no
\* index key, and JSON of an index key, whether or not the index holds it.
PagingTokens ==
    {NoToken, GarbageToken, EncodeToken(OtherValue)}
    \cup {EncodeToken([shape |-> "key", videoKey |-> k, partition |-> "all",
                      uploadedAt |-> t]) : k \in IndexedKeys, t \in PagingTimes}

\* The viewer's traversal after a page: the filters it keeps sending, the
\* cursor for the next page, the pages so far (lines 133-137 give the
\* token and hasMore it goes by).
AfterPage(t, result) ==
    [t EXCEPT !.active = TRUE,
              !.done = result.error \/ ~result.hasMore,
              !.failed = result.error,
              !.token = result.nextToken,
              !.pages = Append(@, result.videos)]

\* A traversal starts: list with no cursor. (A list call leaves the stores
\* as they are, so a behaviour follows one traversal or one call.)
TravStart(camera, startDate, endDate) ==
    /\ ~trav.active /\ ~lastList.called /\ api.served = 0
    /\ trav' = AfterPage([NoTraversal EXCEPT !.camera = camera,
                             !.startDate = startDate, !.endDate = endDate],
                         ListVideos(table, NoToken, camera, startDate, endDate))
    /\ UNCHANGED <<parts, api, stars, run, now, ticks, objects, bboxes, table, ing, delivered, putLog,
                   del, tombstoned, lastList>>

\* It continues while hasMore: list with the returned nextToken.
TravNext ==
    /\ trav.active /\ ~trav.done
    /\ trav' = AfterPage(trav, ListVideos(table, trav.token, trav.camera,
                                          trav.startDate, trav.endDate))
    /\ UNCHANGED <<parts, api, stars, run, now, ticks, objects, bboxes, table, ing, delivered, putLog,
                   del, tombstoned, lastList>>

\* One call with a token of the caller's choosing.
ListWithToken(token, camera, startDate, endDate) ==
    /\ ~trav.active /\ ~lastList.called /\ api.served = 0
    /\ lastList' = ListCall(token, camera, startDate, endDate)
    /\ UNCHANGED <<parts, api, stars, run, now, ticks, objects, bboxes, table, ing, delivered, putLog,
                   del, tombstoned, trav>>



(***************************************************************************)
(* The ingestion handler over an event of several notification records     *)
(* (s3-video-indexer.js lines 14-118): a loop that skips the keys outside   *)
(* the naming convention and awaits HeadObject and PutCommand for the      *)
(* others; what it throws makes the trigger deliver the event again.       *)
(***************************************************************************)
\* A slip: "&&" where the code has "||", which skips a key only when both
\* the extension and the folder are wrong.
IsVideoKeyEitherPart(k) == KeyExt(k) = "mp4" \/ KeyDir(k) = "motion_detections"

\* Line 19, negated: the key is processed.
IsVideoKey(k) == KeyExt(k) = "mp4" /\ KeyDir(k) = "motion_detections"

\* The keys S3 or an operator may name in an event, and the events.
EventKeys == IndexedKeys \cup StrayKeys
Events == UNION {[1..n -> EventKeys] : n \in 1..MaxRecords}

\* The position of the first record at or after pos that the loop does not
\* skip; Len(event) + 1 when there is none.
RECURSIVE NextProcessed(_, _)
NextProcessed(event, pos) ==
    IF pos > Len(event) THEN pos
    ELSE IF IsVideoKey(event[pos]) THEN pos
    ELSE NextProcessed(event, pos + 1)

\* The loop runs from pos to its next await, or to the end of the event,
\* where the handler returns.
LoopFrom(r, pos) ==
    LET p == NextProcessed(r.event, pos)
    IN  IF p > Len(r.event)
        THEN [r EXCEPT !.pc = "idle", !.pos = p, !.outcome = "returned"]
        ELSE [r EXCEPT !.pc = "head", !.pos = p, !.outcome = "running"]

\* A slip: the catch block logs and the loop goes on to the next record.
AfterFailureLogged(r) == LoopFrom([r EXCEPT !.failures = @ + 1], r.pos + 1)

\* Lines 114-117: the catch block rethrows and the handler ends.
AfterFailure(r) ==
    [r EXCEPT !.pc = "idle", !.outcome = "raised", !.failures = @ + 1]

\* The trigger hands an event to the handler: a new one, or again the one
\* whose run raised.
HandlerStart(event) ==
    /\ run.pc = "idle"
    /\ run.attempts < MaxDeliveries
    /\ \/ run.outcome = "none"
       \/ run.outcome = "raised" /\ event = run.event
    /\ run' = LoopFrom([NoRun EXCEPT !.event = event, !.attempts = run.attempts + 1], 1)
    /\ UNCHANGED <<parts, now, ticks, objects, bboxes, table, ing, delivered, putLog,
                   del, tombstoned, lastList, trav, api, stars>>

\* HeadObject answers, with or without a LastModified; the item is built.
HandlerHead(hasLastModified) ==
    /\ run.pc = "head"
    /\ run' = [run EXCEPT
          !.pc = "put",
          !.reads = @ \cup {run.event[run.pos]},
          !.item = IngestItem(run.event[run.pos],
                              IF hasLastModified
                              THEN FloorSeconds(now) * UNITS_PER_SECOND ELSE NoNum,
                              now)]
    /\ UNCHANGED <<parts, now, ticks, objects, bboxes, table, ing, delivered, putLog,
                   del, tombstoned, lastList, trav, api, stars>>

\* HeadObject throws.
HandlerHeadFail ==
    /\ run.pc = "head"
    /\ run' = AfterFailure([run EXCEPT !.reads = @ \cup {run.event[run.pos]}])
    /\ UNCHANGED <<parts, now, ticks, objects, bboxes, table, ing, delivered, putLog,
                   del, tombstoned, lastList, trav, api, stars>>

\* PutCommand succeeds and the loop goes on.
HandlerPut ==
    /\ run.pc = "put"
    /\ table' = PutItem(table, run.item)
    /\ run' = LoopFrom([run EXCEPT !.writes = @ \cup {run.event[run.pos]}], run.pos + 1)
    /\ UNCHANGED <<parts, now, ticks, objects, bboxes, ing, delivered, putLog,
                   del, tombstoned, lastList, trav, api, stars>>

\* PutCommand throws.
HandlerPutFail ==
    /\ run.pc = "put"
    /\ run' = AfterFailure(run)
    /\ UNCHANGED <<parts, now, ticks, objects, bboxes, table, ing, delivered, putLog,
                   del, tombstoned, lastList, trav, api, stars>>

NextHandler ==
    \/ \E event \in Events : HandlerStart(event)
    \/ \E lm \in BOOLEAN : HandlerHead(lm)
    \/ HandlerHeadFail
    \/ HandlerPut
    \/ HandlerPutFail

SpecHandler == Init /\ [][NextHandler]_vars

(***************************************************************************)
(* The handler over one record whose user metadata is any of the values    *)
(* an uploader may have set. The calls themselves do not fail here.        *)
(***************************************************************************)
MetadataValues ==
    [camera : {NoStr, "", "usb"},
     detected_objects : {<<>>, <<"">>, <<"person", "", "cat">>},
     detections_bboxes : BboxesTexts]

\* Lines 35-106 for the metadata HeadObject reported.
ItemOfMetadata(k, m, lastModifiedMs, nowMs) ==
    [IngestItem(k, lastModifiedMs, nowMs) EXCEPT
        !.camera           = CameraTypeOf(m.camera, FileNameOf(k)),
        !.detectedObjects  = DetectedObjectsOf(m.detected_objects),
        !.detectionsBboxes = BboxesOf(m.detections_bboxes)]

\* Whether the document client can marshal the item and the table takes it.
Marshals(item) == item.detectionsBboxes # "unstorableList"

InitMetadata ==
    /\ InitStores
    /\ meta \in MetadataValues
    /\ home = NoHome
    /\ listedAfterRemoval = NoneListed
    /\ player = NoPlayer

\* HeadObject answers with the metadata; the item is built.
MetadataHead(hasLastModified) ==
    /\ run.pc = "head"
    /\ run' = [run EXCEPT
          !.pc = "put",
          !.reads = @ \cup {run.event[run.pos]},
          !.item = ItemOfMetadata(run.event[run.pos], meta,
                                  IF hasLastModified
                                  THEN FloorSeconds(now) * UNITS_PER_SECOND ELSE NoNum,
                                  now)]
    /\ UNCHANGED <<parts, now, ticks, objects, bboxes, table, ing, delivered,
                   putLog, del, tombstoned, lastList, trav, api, stars>>

\* PutCommand: the item is written and the loop goes on, or the command
\* throws for an item it cannot take and the catch block rethrows.
MetadataPut ==
    /\ run.pc = "put"
    /\ table' = IF Marshals(run.item) THEN PutItem(table, run.item) ELSE table
    /\ run' = IF Marshals(run.item)
              THEN LoopFrom([run EXCEPT !.writes = @ \cup {run.event[run.pos]}],
                            run.pos + 1)
              ELSE AfterFailure(run)
    /\ UNCHANGED <<parts, now, ticks, objects, bboxes, ing, delivered, putLog,
                   del, tombstoned, lastList, trav, api, stars>>

NextMetadata ==
    \/ \E k \in IndexedKeys : HandlerStart(<<k>>)
    \/ \E lm \in BOOLEAN : MetadataHead(lm)
    \/ MetadataPut

SpecMetadata == InitMetadata /\ [][NextMetadata]_vars


(***************************************************************************)
(* The web API: the routes of the viewer application, each a whole request *)
(* (GET /api/videos, DELETE /api/videos/[key]/delete, GET                  *)
(* /api/videos/[key], POST and GET /api/starred) over the two stores and   *)
(* the starred-videos table (webapp/src/lib/dynamodb.ts).                  *)
(***************************************************************************)
\* A slip: the DELETE route without its session check.
SessionAllowsDeleteUnchecked(route, session) ==
    \/ route = "delete"
    \/ IF route \in {"star", "starred"}
       THEN session.signedIn /\ session.email # NoNum
       ELSE session.signedIn

\* The session check each route starts with: "!session", and for the
\* starred routes "!session || !session.user?.email".
SessionAllows(route, session) ==
    IF route \in {"star", "starred"}
    THEN session.signedIn /\ session.email # NoNum
    ELSE session.signedIn

\* The [key] path segment: the base64 text of an object key, or text that is
\* not: the text of a key with characters lost or changed ("corrupted"), or
\* text without any base64 character ("symbols").
EncodeKey(k) == [kind |-> "base64", key |-> k]
EncodedKeys == [kind : {"base64", "corrupted", "symbols"}, key : Keys]
\* The strings Buffer.from(_, "base64").toString("utf-8") makes of text that
\* is no encoding: it skips what is not base64 and never throws, so the
\* result is the empty string or a string that is no producer's key.
EmptyKey == 0
GarbageKey == 301
DecodeKey(enc) ==
    CASE enc.kind = "base64"    -> enc.key
      [] enc.kind = "corrupted" -> GarbageKey
      [] OTHER                  -> EmptyKey
\* The keys a request may name once decoded.
ApiKeys == Keys \cup {GarbageKey}

\* The request being answered, before the route has filled in its response.
Request(route, session) ==
    [NoRequest EXCEPT !.served = api.served + 1, !.route = route, !.session = session]

\* GET /api/videos (route.ts). Line 18 hands the token and the camera to
\* listVideosFromDynamoDB and nothing else; lines 21-29 shape the videos.
ResponseVideoOf(video) ==
    [ key |-> video.videoKey, name |-> video.fileName,
      lastModified |-> video.uploadedAt * UNITS_PER_SECOND,
      size |-> video.size, camera |-> video.camera,
      detectedObjects |-> video.detectedObjects ]

RECURSIVE ResponseVideos(_)
ResponseVideos(videos) ==
    IF videos = <<>> THEN <<>>
    ELSE <<ResponseVideoOf(Head(videos))>> \o ResponseVideos(Tail(videos))

ApiList(session, token, camera, startDate, endDate) ==
    /\ api.served < MaxRequests
    /\ LET request == [Request("list", session) EXCEPT
                          !.camera = camera, !.startDate = startDate,
                          !.endDate = endDate]
           result  == ListVideos(table, token, camera, NoNum, NoNum)
       IN  api' = IF ~SessionAllows("list", session)
                  THEN [request EXCEPT !.status = 401]
                  ELSE IF result.error
                  THEN [request EXCEPT !.status = 500, !.storeCalls = 1]
                  ELSE [request EXCEPT !.status = 200, !.storeCalls = 1,
                                       !.videos = ResponseVideos(result.videos)]
    /\ UNCHANGED <<parts, now, ticks, objects, bboxes, table, ing, delivered, putLog,
                   del, tombstoned, lastList, trav, stars, run>>

\* DELETE /api/videos/[key]/delete as one request; failAt names the store
\* call that throws (0: none). DeleteObjectCommand refuses an empty Key
\* before anything is sent.
ApiDelete(session, enc, failAt) ==
    /\ api.served < MaxRequests
    /\ LET k        == DecodeKey(enc)
           request  == [Request("delete", session) EXCEPT
                           !.encoding = enc.kind, !.key = k, !.failAt = failAt]
           allowed  == SessionAllows("delete", session)
           step1    == allowed /\ k # EmptyKey /\ failAt # 1
           step2    == step1 /\ failAt # 2
           step3    == step1 /\ failAt # 3
       IN  /\ objects' = IF step1 /\ k \in Keys
                         THEN [objects EXCEPT ![k].exists = FALSE] ELSE objects
           /\ bboxes' = IF step2 THEN bboxes \ {k} ELSE bboxes
           /\ table' = IF step3 THEN UpdateTombstone(table, k, FloorSeconds(now))
                       ELSE table
           /\ api' = IF ~allowed THEN [request EXCEPT !.status = 401]
                     ELSE IF k = EmptyKey THEN [request EXCEPT !.status = 500]
                     ELSE IF failAt = 1
                     THEN [request EXCEPT !.status = 500, !.storeCalls = 1]
                     ELSE IF failAt = 3
                     THEN [request EXCEPT !.status = 500, !.storeCalls = 3]
                     ELSE [request EXCEPT !.status = 200, !.storeCalls = 3]
    /\ UNCHANGED <<parts, now, ticks, ing, delivered, putLog, del, tombstoned,
                   lastList, trav, stars, run>>

\* GET /api/videos/[key]: presigned URLs for the decoded key and for its
\* annotation object. getSignedUrl signs locally and asks no store;
\* GetObjectCommand refuses an empty Key.
ApiMedia(session, enc) ==
    /\ api.served < MaxRequests
    /\ LET k       == DecodeKey(enc)
           request == [Request("media", session) EXCEPT
                          !.encoding = enc.kind, !.key = k]
       IN  api' = IF ~SessionAllows("media", session)
                  THEN [request EXCEPT !.status = 401]
                  ELSE IF k = EmptyKey THEN [request EXCEPT !.status = 500]
                  ELSE [request EXCEPT !.status = 200]
    /\ UNCHANGED <<parts, now, ticks, objects, bboxes, table, ing, delivered, putLog,
                   del, tombstoned, lastList, trav, stars, run>>

\* The starred-videos table: primary key (userId, videoKey), and the
\* UserTimestampIndex on (userId, starredAt). starredAt is the clock where the
\* code stores new Date().toISOString().
StarsOf(tbl, userId, videoKey) ==
    {i \in tbl : i.userId = userId /\ i.videoKey = videoKey}

\* A slip: a table keyed by the time of starring too, which keeps the
\* earlier item.
StarVideoAppended(tbl, userId, videoKey, starredAt) ==
    tbl \cup {[userId |-> userId, videoKey |-> videoKey, starredAt |-> starredAt]}

\* starVideo: PutCommand of {userId, videoKey, starredAt}.
StarVideo(tbl, userId, videoKey, starredAt) ==
    (tbl \ StarsOf(tbl, userId, videoKey))
    \cup {[userId |-> userId, videoKey |-> videoKey, starredAt |-> starredAt]}

\* unstarVideo: DeleteCommand by key, which succeeds when there is no item.
UnstarVideo(tbl, userId, videoKey) == tbl \ StarsOf(tbl, userId, videoKey)

\* A slip: the index scanned forwards (ScanIndexForward left at its default):
\* earliest first.
RECURSIVE StarredOrderForwards(_)
StarredOrderForwards(S) ==
    IF S = {} THEN <<>>
    ELSE LET first == CHOOSE i \in S : \A j \in S \ {i} :
                          \/ i.starredAt < j.starredAt
                          \/ i.starredAt = j.starredAt /\ i.videoKey < j.videoKey
         IN  <<first>> \o StarredOrderForwards(S \ {first})

\* The index scanned backwards: latest first, by key among equal times.
RECURSIVE StarredOrder(_)
StarredOrder(S) ==
    IF S = {} THEN <<>>
    ELSE LET first == CHOOSE i \in S : \A j \in S \ {i} :
                          \/ i.starredAt > j.starredAt
                          \/ i.starredAt = j.starredAt /\ i.videoKey > j.videoKey
         IN  <<first>> \o StarredOrder(S \ {first})

\* A slip: the starred items joined with the videos table, keeping those
\* whose record is there and not deleted.
GetStarredVideosOfLiveRecords(tbl, userId) ==
    StarredOrder({i \in tbl : /\ i.userId = userId
                              /\ \E v \in ItemsOf(table, i.videoKey) :
                                    v.deleted # "true"})

\* getStarredVideos: Query of UserTimestampIndex for the user, descending.
GetStarredVideos(tbl, userId) == StarredOrder({i \in tbl : i.userId = userId})

\* The keys and actions a POST body may carry: a key of the producer's or
\* any other text, none (EmptyKey); "star", "unstar", another word, none.
BodyKeys == ApiKeys \cup {EmptyKey}
BodyActions == {"star", "unstar", "toggle", NoStr}

\* POST /api/starred; fails: the table's call throws.
ApiStar(session, videoKey, action, fails) ==
    /\ api.served < MaxRequests
    /\ LET request == [Request("star", session) EXCEPT
                          !.key = videoKey, !.action = action,
                          !.failAt = IF fails THEN 1 ELSE 0,
                          !.wasStarred =
                              StarsOf(stars, session.email, videoKey) # {}]
           allowed == SessionAllows("star", session)
           sent    == /\ allowed /\ videoKey # EmptyKey
                      /\ action \in {"star", "unstar"}
       IN  /\ stars' = IF sent /\ ~fails
                       THEN IF action = "star"
                            THEN StarVideo(stars, session.email, videoKey, now)
                            ELSE UnstarVideo(stars, session.email, videoKey)
                       ELSE stars
           /\ api' = IF ~allowed THEN [request EXCEPT !.status = 401]
                     ELSE IF ~sent THEN [request EXCEPT !.status = 400]
                     ELSE IF fails
                     THEN [request EXCEPT !.status = 500, !.storeCalls = 1]
                     ELSE [request EXCEPT !.status = 200, !.storeCalls = 1]
    /\ UNCHANGED <<parts, now, ticks, objects, bboxes, table, ing, delivered, putLog,
                   del, tombstoned, lastList, trav, run>>

\* GET /api/starred.
ApiStarred(session, fails) ==
    /\ api.served < MaxRequests
    /\ LET request == [Request("starred", session) EXCEPT
                          !.failAt = IF fails THEN 1 ELSE 0]
       IN  api' = IF ~SessionAllows("starred", session)
                  THEN [request EXCEPT !.status = 401]
                  ELSE IF fails
                  THEN [request EXCEPT !.status = 500, !.storeCalls = 1]
                  ELSE [request EXCEPT
                           !.status = 200, !.storeCalls = 1,
                           !.starred = GetStarredVideos(stars, session.email)]
    /\ UNCHANGED <<parts, now, ticks, objects, bboxes, table, ing, delivered, putLog,
                   del, tombstoned, lastList, trav, stars, run>>

\* The paging specification: a traversal, a call of the query function, or a
\* request to the route, over the drawn index.
NextPaging ==
    \/ \E camera \in PagingCameras, sd \in PagingStartDates, ed \in PagingEndDates :
          TravStart(camera, sd, ed)
    \/ TravNext
    \/ \E token \in PagingTokens, camera \in PagingCameras,
          sd \in PagingStartDates, ed \in PagingEndDates :
          ListWithToken(token, camera, sd, ed)
    \/ \E session \in Sessions, camera \in PagingCameras,
          sd \in PagingStartDates, ed \in PagingEndDates :
          /\ ~trav.active /\ ~lastList.called /\ api.served = 0
          /\ ApiList(session, NoToken, camera, sd, ed)

SpecPaging == InitPaging /\ [][NextPaging]_vars

\* The stores when the viewer arrives: some of the producer's objects are
\* uploaded and indexed, the others do not exist.
\* A DELETE served between two pages of a traversal, by a signed-in viewer,
\* for a key the viewer was shown; failAt tells which call throws, if any.
DeleteBetweenPages(k, failAt) ==
    /\ trav.active /\ ~trav.done
    /\ api.served = 0
    /\ ApiDelete([signedIn |-> TRUE, email |-> 1], EncodeKey(k), failAt)

\* The traversal specification: paging over the drawn index while a
\* deletion tombstones one of its records.
NextTombstoning ==
    \/ \E camera \in PagingCameras, startDate \in PagingStartDates,
          endDate \in PagingEndDates : TravStart(camera, startDate, endDate)
    \/ TravNext
    \/ \E k \in Keys, failAt \in {0, 3} : DeleteBetweenPages(k, failAt)

SpecTombstoning == InitPaging /\ [][NextTombstoning]_vars

(***************************************************************************)
(* The home page (HomePage): a page of videos, the token for the next one  *)
(* and the stack of tokens behind it, over an index that does not change.  *)
(***************************************************************************)
HomeKeys == 1..NumHomeRecords

\* The index: records captured two to a second, each live or tombstoned.
InitHome ==
    /\ now = PagingNow
    /\ ticks = 0
    /\ objects = [k \in Keys |-> NoObject]
    /\ bboxes = {}
    /\ \E f \in [HomeKeys -> {NoStr, "true"}] :
          table = {DrawnItem(k, [kind |-> "item",
                                 uploadedAt |-> 2 * SECONDS_PER_DAY + k \div 2,
                                 deleted |-> f[k]]) : k \in HomeKeys}
    /\ ing = [n \in Instances |-> IdleInstance]
    /\ delivered = [k \in Keys |-> 0]
    /\ putLog = [k \in Keys |-> <<>>]
    /\ del = IdleDelete
    /\ tombstoned = {}
    /\ lastList = NoList
    /\ trav = NoTraversal
    /\ api = NoRequest
    /\ stars = {}
    /\ run = NoRun
    /\ meta = NoMetadata
    /\ player = NoPlayer
    /\ listedAfterRemoval = NoneListed
    /\ home = NoHome

\* A slip: the token put into the URL as it is.
UrlOfUnescaped(token) ==
    [hasParam |-> token.given, escaped |-> FALSE, token |-> token]

\* Line 278: the URL fetched, with the token escaped by encodeURIComponent
\* when there is one.
UrlOf(token) == [hasParam |-> token.given, escaped |-> TRUE, token |-> token]

\* searchParams.get("continuationToken") || undefined (route.ts line 15):
\* the parameter unescaped; in an unescaped token "+" reads as a space,
\* which leaves text that is not the token.
SearchParamOf(url) ==
    IF ~url.hasParam THEN NoToken
    ELSE IF url.escaped THEN url.token
    ELSE GarbageToken

\* fetchVideos up to its await (lines 275-279).
FetchVideos(h, token, navigatingBack) ==
    [h EXCEPT !.loading = TRUE,
              !.request = [sent |-> TRUE, token |-> token,
                           navigatingBack |-> navigatingBack]]

\* The effect of lines 224-227 on mount.
HomeMount ==
    /\ ~home.mounted
    /\ home' = FetchVideos([home EXCEPT !.mounted = TRUE, !.last = "mount"],
                           NoToken, FALSE)
    /\ UNCHANGED <<stores, meta, player, listedAfterRemoval>>

\* The buttons are rendered with a non-empty page, no error and no fetch
\* under way (lines 384-396).
ControlsShown(h) ==
    /\ h.mounted /\ ~h.loading /\ ~h.error /\ h.videos # <<>>
    /\ h.clicks < MaxNavigations

\* refreshVideos (lines 299-304).
RefreshVideos ==
    /\ ControlsShown(home)
    /\ home' = FetchVideos([home EXCEPT !.previousTokens = <<>>,
                                        !.currentPage = 0,
                                        !.continuationToken = NoToken,
                                        !.last = "refresh", !.clicks = @ + 1],
                           NoToken, FALSE)
    /\ UNCHANGED <<stores, meta, player, listedAfterRemoval>>

\* goToNextPage (lines 306-312); the button is disabled without hasMore.
GoToNextPage ==
    /\ ControlsShown(home)
    /\ home.continuationToken.given /\ home.hasMore
    /\ home' = FetchVideos([home EXCEPT
                               !.previousTokens = Append(@, home.continuationToken),
                               !.currentPage = @ + 1,
                               !.last = "next", !.clicks = @ + 1],
                           home.continuationToken, FALSE)
    /\ UNCHANGED <<stores, meta, player, listedAfterRemoval>>

\* goToPreviousPage (lines 314-324): pop gives undefined on an empty stack,
\* as does reading the last element of the stack left.
GoToPreviousPage ==
    /\ ControlsShown(home)
    /\ home.currentPage > 0
    /\ LET tokens            == home.previousTokens
           newPreviousTokens == IF tokens = <<>> THEN <<>>
                                ELSE SubSeq(tokens, 1, Len(tokens) - 1)
           currentToken      == IF tokens = <<>> THEN NoToken ELSE tokens[Len(tokens)]
           previousToken     == IF newPreviousTokens = <<>> THEN NoToken
                                ELSE newPreviousTokens[Len(newPreviousTokens)]
       IN  home' = FetchVideos([home EXCEPT
                                   !.previousTokens = newPreviousTokens,
                                   !.currentPage = @ - 1,
                                   !.continuationToken = currentToken,
                                   !.last = "previous", !.clicks = @ + 1],
                               previousToken, TRUE)
    /\ UNCHANGED <<stores, meta, player, listedAfterRemoval>>

\* The route answers the request (route.ts lines 13-42) and fetchVideos goes
\* on (page.tsx lines 280-296).
HomeResponse ==
    /\ home.loading /\ home.request.sent
    /\ LET result == ListVideos(table, SearchParamOf(UrlOf(home.request.token)),
                                NoStr, NoNum, NoNum)
       IN  home' =
             IF result.error
             THEN [home EXCEPT !.loading = FALSE, !.error = TRUE, !.request = NoFetch]
             ELSE [home EXCEPT
                      !.loading = FALSE, !.request = NoFetch,
                      !.videos = ResponseVideos(result.videos),
                      !.hasMore = result.hasMore,
                      !.continuationToken =
                          IF home.request.navigatingBack THEN @ ELSE result.nextToken]
    /\ UNCHANGED <<stores, meta, player, listedAfterRemoval>>

\* The request fails, or is answered 401 or 500: the catch of lines 290-293.
HomeResponseFails ==
    /\ home.loading /\ home.request.sent
    /\ home' = [home EXCEPT !.loading = FALSE, !.error = TRUE, !.request = NoFetch]
    /\ UNCHANGED <<stores, meta, player, listedAfterRemoval>>

NextHome ==
    \/ HomeMount
    \/ RefreshVideos
    \/ GoToNextPage
    \/ GoToPreviousPage
    \/ HomeResponse
    \/ HomeResponseFails

SpecHome == InitHome /\ [][NextHome]_vars

InitApi ==
    /\ now = StartMs
    /\ ticks = 0
    /\ \E S \in SUBSET Keys :
          /\ objects = [k \in Keys |->
                IF k \in S
                THEN [exists |-> TRUE, created |-> TRUE,
                      lastModified |-> FloorSeconds(StartMs) * UNITS_PER_SECOND]
                ELSE NoObject]
          /\ bboxes = {k \in S : HasBboxObject(k)}
          /\ table = {IngestItem(k, FloorSeconds(StartMs) * UNITS_PER_SECOND, StartMs) :
                         k \in S}
    /\ ing = [n \in Instances |-> IdleInstance]
    /\ delivered = [k \in Keys |-> 0]
    /\ putLog = [k \in Keys |-> <<>>]
    /\ del = IdleDelete
    /\ tombstoned = {}
    /\ lastList = NoList
    /\ trav = NoTraversal
    /\ api = NoRequest
    /\ stars = {}
    /\ run = NoRun
    /\ meta = NoMetadata
    /\ home = NoHome
    /\ listedAfterRemoval = NoneListed
    /\ player = NoPlayer

NextApi ==
    \/ Tick
    \/ \E session \in Sessions, camera \in {NoStr, "usb"} :
          ApiList(session, NoToken, camera, NoNum, NoNum)
    \/ \E session \in Sessions, enc \in EncodedKeys, failAt \in 0..3 :
          ApiDelete(session, enc, failAt)
    \/ \E session \in Sessions, enc \in EncodedKeys : ApiMedia(session, enc)
    \/ \E session \in Sessions, videoKey \in BodyKeys, action \in BodyActions,
          fails \in BOOLEAN : ApiStar(session, videoKey, action, fails)
    \/ \E session \in Sessions, fails \in BOOLEAN : ApiStarred(session, fails)

SpecApi == InitApi /\ [][NextApi]_vars


(***************************************************************************)
(* Properties.                                                             *)
(***************************************************************************)
RECURSIVE Flatten(_)
Flatten(pages) == IF pages = <<>> THEN <<>> ELSE Head(pages) \o Flatten(Tail(pages))

\* The records a traversal has returned so far, in order.
Returned == Flatten(trav.pages)
Occurrences(videos, k) == Cardinality({n \in 1..Len(videos) : videos[n].videoKey = k})

\* The last second of a day, and a record's place in a requested range of
\* days: from the first second of startDate to the last second of endDate.
EndOfDay(day) == day * SECONDS_PER_DAY + SECONDS_PER_DAY - 1
InDateRange(uploadedAt, startDate, endDate) ==
    /\ (startDate = NoNum \/ uploadedAt >= startDate * SECONDS_PER_DAY)
    /\ (endDate = NoNum \/ uploadedAt <= EndOfDay(endDate))
\* A record the caller's filter asks for.
Matches(item, camera, startDate, endDate) ==
    /\ item.deleted # "true"
    /\ (camera = NoStr \/ item.camera = camera)
    /\ InDateRange(item.uploadedAt, startDate, endDate)
Live(item) == ~Expired(item, now)
ProvidesLastModified(k) == objects[k].lastModified \notin {NoNum, 0}

\* C1 (as stated): two deliveries of one creation notification leave exactly
\* one record under the key, and every delivery writes the same item.
C1_SameItemEveryDelivery ==
    \A k \in Keys :
        /\ Cardinality(ItemsOf(table, k)) <= 1
        /\ \A m, n \in 1..Len(putLog[k]) : putLog[k][m] = putLog[k][n]

\* C1 (amended): the table never holds two records under one key, and the
\* deliveries of a notification write the same item whenever HeadObject
\* reports a (non-zero) LastModified for the object.
C1_SameItemGivenLastModified ==
    \A k \in Keys :
        /\ Cardinality(ItemsOf(table, k)) <= 1
        /\ ProvidesLastModified(k) =>
              \A m, n \in 1..Len(putLog[k]) : putLog[k][m] = putLog[k][n]

\* C1 witness: two deliveries have written the record of an object with a
\* LastModified, the second after the clock moved.
C1_TwoDeliveriesWrote ==
    \E k \in Keys :
        /\ ProvidesLastModified(k)
        /\ Len(putLog[k]) = 2
        /\ ticks > 0
        /\ Cardinality(ItemsOf(table, k)) = 1

\* C3: a list call returns no record whose tombstone had been written when
\* the call was made.
C3_TombstonedNeverListed ==
    \A n \in 1..Len(lastList.result.videos) :
        lastList.result.videos[n].videoKey \notin lastList.tombstonedBefore

\* C4: the tombstone write is attempted only after step 1 succeeded; when
\* step 1 fails the request ends with status 500, sends no annotation delete
\* and no update, and the failing step changes neither store.
C4_NoTombstoneUnlessVideoDeleted ==
    /\ [](/\ del.updateAttempts > 0 => del.step1ok
          /\ del.tombstoneWritten => del.step1ok
          /\ del.failedStep = 1 =>
                /\ del.pc = "done" /\ del.status = 500
                /\ ~del.bboxDeleteSent
                /\ del.updateAttempts = 0 /\ ~del.tombstoneWritten)
    /\ [][del' # del /\ del'.failedStep = 1 /\ del.pc \in {"idle", "done"} =>
             table' = table /\ bboxes' = bboxes /\ objects' = objects]_vars

\* C4 witness: step 1 failed for a key that has a record and an annotation
\* object, both still there.
C4_VideoDeleteFailed ==
    /\ del.failedStep = 1
    /\ \E i \in ItemsOf(table, del.key) : i.deleted = NoStr
    /\ del.key \in bboxes
    /\ objects[del.key].exists

\* C5: when the update of step 3 fails the request ends with status 500
\* after that one attempt, the media object is gone, the request has written
\* no tombstone, and the failing step leaves the table as it was.
C5_FailedTombstoneIsReported ==
    /\ [](del.failedStep = 3 =>
             /\ del.pc = "done" /\ del.status = 500
             /\ del.step1ok /\ ~objects[del.key].exists
             /\ del.updateAttempts = 1 /\ ~del.tombstoneWritten)
    /\ [][del' # del /\ del'.failedStep = 3 /\ del.pc = "step3" => table' = table]_vars

\* C5 witness: step 3 failed and the record is in the index, not tombstoned.
C5_TombstoneWriteFailed ==
    /\ del.failedStep = 3
    /\ \E i \in ItemsOf(table, del.key) : i.deleted = NoStr /\ i.partition = "all"
    /\ ~objects[del.key].exists


\* The index records a traversal's filter asks for that have not expired.
Wanted ==
    {i \in IndexEntries(table) :
        Live(i) /\ Matches(i, trav.camera, trav.startDate, trav.endDate)}

\* C2: paging from the start until hasMore is false returns every
\* non-deleted, non-expired record matching the filter exactly once, and at
\* no point has a traversal returned a record twice.
C2_EveryRecordExactlyOnce ==
    /\ \A k \in IndexedKeys : Occurrences(Returned, k) <= 1
    /\ trav.done /\ ~trav.failed =>
          \A i \in Wanted : Occurrences(Returned, i.videoKey) = 1

\* C2 witness: a finished traversal with a camera filter whose wanted
\* records lie on two pages, over an index that also holds a tombstoned
\* record.
C2_TraversalOverPages ==
    /\ trav.done /\ ~trav.failed
    /\ Len(trav.pages) >= 2
    /\ trav.pages[1] # <<>> /\ trav.pages[2] # <<>>
    /\ Wanted # {}
    /\ \E i \in IndexEntries(table) : i.deleted = "true"

\* A token that is not a cursor of this index: not JSON once decoded, JSON
\* of something that is no index key, or an index key the index lacks.
InvalidToken(token) ==
    /\ token.given
    /\ \/ ~token.json
       \/ token.value.shape # "key"
       \/ token.value \notin {IndexKeyOf(i) : i \in IndexEntries(table)}

\* C6: a list call with an invalid or corrupted cursor does not fail and
\* returns the first page, the one a call with no cursor returns.
C6_InvalidCursorGivesFirstPage ==
    lastList.called /\ InvalidToken(lastList.token) =>
        /\ ~lastList.result.error
        /\ lastList.result =
              ListVideos(table, NoToken, lastList.camera, lastList.startDate,
                         lastList.endDate)

\* The deleted attribute of the record a returned entry stands for.
DeletedOf(k) == {i.deleted : i \in ItemsOf(table, k)}

\* C7: with a sourceLabel every returned record carries that label, and with
\* or without one no returned record is soft-deleted.
C7_OnlyLabelledAndNotDeleted ==
    \A videos \in {lastList.result.videos, Returned} :
        \A n \in 1..Len(videos) :
            LET camera == IF videos = Returned /\ trav.active
                          THEN trav.camera ELSE lastList.camera
            IN  /\ camera # NoStr => videos[n].camera = camera
                /\ "true" \notin DeletedOf(videos[n].videoKey)

\* C8: in a traversal no record comes after one captured earlier, and
\* records captured in the same second come in the store's key order, the
\* same on every traversal.
C8_DescendingWithStableTies ==
    \A m, n \in 1..Len(Returned) :
        m < n =>
            \/ Returned[m].uploadedAt > Returned[n].uploadedAt
            \/ /\ Returned[m].uploadedAt = Returned[n].uploadedAt
               /\ Returned[m].videoKey > Returned[n].videoKey

\* C8 witness: a finished traversal of two pages whose page break falls
\* between two records captured in the same second, after a later record.
C8_TieAcrossPages ==
    /\ trav.done /\ Len(trav.pages) = 2
    /\ Len(trav.pages[1]) = PAGE_SIZE /\ trav.pages[2] # <<>>
    /\ trav.pages[1][PAGE_SIZE].uploadedAt = trav.pages[2][1].uploadedAt
    /\ trav.pages[1][1].uploadedAt > trav.pages[1][PAGE_SIZE].uploadedAt

CeilDiv(n, d) == (n + d - 1) \div d

\* C9: paging from the start until hasMore is false takes ceil(N / P)
\* pages, N the non-deleted, non-expired records matching the filter
\* (stated for N > 0: a traversal always makes its first call).
C9_CeilingOfPages ==
    trav.done /\ ~trav.failed /\ Wanted # {} =>
        Len(trav.pages) = CeilDiv(Cardinality(Wanted), PAGE_SIZE)

\* C10: with an endDate, a traversal returns the non-deleted records
\* captured in the last second of that day and none captured one second
\* later.
C10_EndOfDayBoundary ==
    trav.done /\ ~trav.failed /\ trav.endDate # NoNum
              /\ trav.camera = NoStr /\ trav.startDate = NoNum =>
        /\ \A i \in IndexEntries(table) :
              i.deleted # "true" /\ i.uploadedAt = EndOfDay(trav.endDate) =>
                  Occurrences(Returned, i.videoKey) = 1
        /\ \A n \in 1..Len(Returned) :
              Returned[n].uploadedAt # EndOfDay(trav.endDate) + 1

\* C15: every record the videos table holds carries a capture time and an
\* expiry time, and the expiry is the capture time plus the retention.
C15_ExpiryIsCaptureTimePlusRetention ==
    \A i \in table :
        /\ i.uploadedAt # NoNum /\ i.ttl # NoNum
        /\ i.ttl = i.uploadedAt + RETENTION_SECONDS

\* C16: a DELETE of a record that is already tombstoned succeeds unless a
\* store call it depends on throws, and when it has succeeded the record
\* is tombstoned and the media object is absent.
C16_DeleteAgainSucceeds ==
    /\ [](del.again /\ del.pc = "done" /\ del.failedStep \notin {1, 3} =>
             del.status = 200)
    /\ [][del.again /\ del.pc = "step3" /\ del'.pc = "done" /\ del'.status = 200 =>
             /\ ItemsOf(table', del.key) # {}
             /\ \A i \in ItemsOf(table', del.key) : i.deleted = "true"
             /\ ~objects'[del.key].exists]_vars

\* C16 witness: a second DELETE of an ingested, tombstoned record has
\* succeeded, later than the first.
C16_DeletedTwice ==
    /\ del.again /\ del.pc = "done" /\ del.status = 200
    /\ \E i \in ItemsOf(table, del.key) :
          i.deleted = "true" /\ i.partition = "all" /\ i.deletedAt > FloorSeconds(StartMs)
    /\ ~objects[del.key].exists

\* C12: a run of the handler that returned has written the record of every
\* key of its event that matches the naming convention, and a run in which
\* HeadObject or PutCommand threw has raised.
C12_ReturnsOnlyWhenAllWritten ==
    /\ run.outcome = "returned" =>
          \A n \in 1..Len(run.event) :
              IsVideoKey(run.event[n]) =>
                  /\ run.event[n] \in run.writes
                  /\ \E i \in ItemsOf(table, run.event[n]) : i.partition = "all"
    /\ run.failures > 0 => run.outcome = "raised" /\ run.pc = "idle"

\* C12 witness: an event of two media keys, delivered again after a run
\* that raised, and written in full by the run that returned.
C12_RedeliveredAndWritten ==
    /\ run.outcome = "returned" /\ run.attempts = 2
    /\ Len(run.event) = 2
    /\ run.event[1] # run.event[2]
    /\ \A n \in 1..2 : IsVideoKey(run.event[n]) /\ run.event[n] \in run.writes

\* C13: the handler neither reads the object nor writes a record for a key
\* outside the naming convention, and it returns from an event that holds
\* no other keys.
C13_StrayKeysSkipped ==
    /\ \A k \in EventKeys :
          ~(KeyDir(k) = "motion_detections" /\ KeyExt(k) = "mp4") =>
              k \notin run.reads /\ k \notin run.writes /\ ItemsOf(table, k) = {}
    /\ (run.event # <<>> /\
        \A n \in 1..Len(run.event) :
            ~(KeyDir(run.event[n]) = "motion_detections" /\ KeyExt(run.event[n]) = "mp4"))
          => run.outcome = "returned" /\ run.reads = {} /\ table = {}

\* C13 witness: a run has returned from an event that holds a key outside
\* the media folder and a key without the media extension, and another has
\* written a media key after skipping a stray one.
C13_StrayEventReturned ==
    \/ /\ run.outcome = "returned"
       /\ run.event = <<OutsideFolderKey, OtherExtensionKey>>
    \/ /\ run.outcome = "returned" /\ Len(run.event) = 2
       /\ run.event[1] \in StrayKeys /\ run.event[2] \in run.writes

\* C11: the videos GET /api/videos returns for a request that carries a
\* startDate and/or an endDate were all captured inside the requested range
\* of days.
C11_RouteKeepsToDateRange ==
    api.route = "list" /\ api.status = 200 =>
        \A n \in 1..Len(api.videos) :
            InDateRange(FloorSeconds(api.videos[n].lastModified),
                        api.startDate, api.endDate)

\* C14: no request to the web API gives the videos table a record under a
\* key that had none.
C14_ViewerCreatesNoRecord ==
    [][\A k \in ApiKeys : ItemsOf(table, k) = {} => ItemsOf(table', k) = {}]_vars

\* C17: a DELETE or media-URL request whose key segment is not a valid
\* encoding is answered with a status in the 400s.
C17_InvalidEncodingIsClientError ==
    /\ api.route \in {"delete", "media"}
    /\ SessionAllows(api.route, api.session)
    /\ api.encoding # "base64"
    => api.status >= 400 /\ api.status <= 499

\* C18: a request without a session is answered 401 after no store call,
\* and the step that serves it leaves the bucket, the videos table and the
\* starred-videos table as they were.
C18_NoSessionNoEffect ==
    /\ [](api.route # "none" /\ ~api.session.signedIn =>
             api.status = 401 /\ api.storeCalls = 0)
    /\ [][api'.served # api.served /\ ~api'.session.signedIn =>
             /\ table' = table /\ objects' = objects
             /\ bboxes' = bboxes /\ stars' = stars]_vars

\* C18 witness: a DELETE without a session for an indexed object that has an
\* annotation object, all still there.
C18_DeleteWithoutSession ==
    /\ api.route = "delete" /\ ~api.session.signedIn /\ api.encoding = "base64"
    /\ api.status = 401
    /\ \E i \in ItemsOf(table, api.key) : i.deleted = NoStr
    /\ objects[api.key].exists /\ api.key \in bboxes

\* C19: the starred-videos table never holds two items for one user and key;
\* a successful star leaves exactly the item written by it for the pair, a
\* successful unstar leaves none, and neither touches another pair's item;
\* an unstar succeeds, starred or not, unless the table's call throws.
C19_OneStarPerUserAndKey ==
    /\ [](/\ \A u \in Principals, k \in BodyKeys :
                Cardinality(StarsOf(stars, u, k)) <= 1
          /\ api.route = "star" /\ api.action = "unstar" /\ api.failAt = 0
             /\ SessionAllows("star", api.session) /\ api.key # EmptyKey
             => api.status = 200)
    /\ [][api'.served # api.served /\ api'.route = "star" /\ api'.status = 200 =>
             LET u == api'.session.email
                 k == api'.key
             IN  /\ stars' \ StarsOf(stars', u, k) = stars \ StarsOf(stars, u, k)
                 /\ StarsOf(stars', u, k) =
                       IF api'.action = "star"
                       THEN {[userId |-> u, videoKey |-> k, starredAt |-> now]}
                       ELSE {}]_vars

\* C19 witness: a pair starred before has been starred again at a later
\* time, while another user's star for the key is there.
C19_StarredAgain ==
    /\ api.route = "star" /\ api.action = "star" /\ api.status = 200
    /\ api.wasStarred
    /\ \E i \in StarsOf(stars, api.session.email, api.key) : i.starredAt > StartMs
    /\ \E u \in Principals \ {api.session.email} : StarsOf(stars, u, api.key) # {}

\* C20: a DELETE leaves the starred-videos table as it was; a star for any
\* key, with or without a record, succeeds unless the table's call throws;
\* and listing succeeds likewise and returns every starred item of the user.
C20_StarsOutliveTheirVideos ==
    /\ [](/\ api.route = "star" /\ api.action = "star" /\ api.failAt = 0
             /\ SessionAllows("star", api.session) /\ api.key # EmptyKey
             => /\ api.status = 200
                /\ StarsOf(stars, api.session.email, api.key) # {}
          /\ api.route = "starred" /\ api.failAt = 0
             /\ SessionAllows("starred", api.session)
             => /\ api.status = 200
                /\ {api.starred[n] : n \in 1..Len(api.starred)} =
                      {i \in stars : i.userId = api.session.email})
    /\ [][api'.served # api.served /\ api'.route = "delete" => stars' = stars]_vars

\* C20 witness: the user's starred videos listed after the DELETE of one of
\* them: the list holds the item of the tombstoned record.
C20_StarredListedAfterDelete ==
    /\ api.route = "starred" /\ api.status = 200
    /\ \E n \in 1..Len(api.starred) :
          \E v \in ItemsOf(table, api.starred[n].videoKey) :
              v.deleted = "true" /\ v.partition = "all"

C22_EveryMetadataValueIsIndexed ==
    run.pc = "idle" /\ run.outcome # "none" =>
        /\ run.outcome = "returned"
        /\ \E i \in ItemsOf(table, run.event[1]) :
              JsonParse(meta.detections_bboxes).threw => i.detectionsBboxes = NoStr

\* The latest frame index a video of MaxTime reaches.
MaxFrame == (MaxTime * fps) \div TIME_UNITS_PER_SECOND

\* C23: every redraw of a shown overlay over a video with dimensions leaves
\* on the canvas exactly the detections made on frame n, where f is the whole
\* number of frames in the time played (f <= t * 20 < f + 1) and n is the
\* multiple of 10 nearest to f, the upper one when f lies halfway; at 0.49 s
\* that is frame 9 and sampled frame 10, at 0 s frame 0 and sampled frame 0.
C23_DrawsNearestSampledFrame ==
    [][/\ player' # player
       /\ player'.showBboxes /\ HasCanvas(player') /\ player'.videoWidth > 0
       => \E f \in 0..MaxFrame, n \in 0..(MaxFrame + sampleRate) :
             /\ f * TIME_UNITS_PER_SECOND <= player'.currentTime * fps
             /\ player'.currentTime * fps < (f + 1) * TIME_UNITS_PER_SECOND
             /\ n % sampleRate = 0
             /\ 2 * (n - f) <= sampleRate /\ 2 * (f - n) < sampleRate
             /\ player'.drawn = {d \in player'.detections.list : d.frame_index = n}
             /\ (100 * player'.currentTime = 49 * TIME_UNITS_PER_SECOND
                    => f = 9 /\ n = 10)
             /\ (player'.currentTime = 0 => f = 0 /\ n = 0)]_vars

\* C23 witness: at 0.49 s, frame 9, the two detections made on frame 10 are
\* on the canvas and no other.
C23_DrawnAtFrameNine ==
    /\ 100 * player.currentTime = 49 * TIME_UNITS_PER_SECOND
    /\ player.showBboxes /\ player.videoWidth > 0
    /\ Cardinality(player.drawn) = 2
    /\ \A d \in player.drawn : d.frame_index = 10
    /\ \E d \in player.detections.list : d.frame_index = 0

\* C24: whatever becomes of the annotation delete, the tombstone write comes
\* next: a request whose video delete succeeded attempts the update once, and
\* one whose annotation delete threw and whose update succeeded is answered
\* 200 with the tombstone written. The annotation delete of a key that has
\* no annotation object succeeds.
C24_AnnotationDeleteNeverStopsDeletion ==
    /\ [](/\ del.pc = "done" /\ del.step1ok => del.updateAttempts = 1
          /\ del.pc = "done" /\ del.failedStep = 2 =>
                del.status = 200 /\ del.tombstoneWritten)
    /\ [][del.pc = "step2" /\ del' # del =>
             del'.pc = "step3" /\ del'.status = 0]_vars

\* C24 witness: a deletion answered 200 whose annotation delete threw; the
\* annotation object is still in the bucket and the record is tombstoned.
C24_AnnotationDeleteFailed ==
    /\ del.pc = "done" /\ del.failedStep = 2 /\ del.status = 200
    /\ del.key \in bboxes
    /\ \E i \in ItemsOf(table, del.key) : i.deleted = "true"

\* C25: in a traversal during which a record is tombstoned between two
\* pages, no page after the first fails, no record is returned twice, and
\* when the traversal ends every record that is then non-deleted, non-expired
\* and matching has been returned exactly once.
C25_TombstoneKeepsCursorValid ==
    /\ \A k \in IndexedKeys : Occurrences(Returned, k) <= 1
    /\ trav.failed => Len(trav.pages) = 1
    /\ trav.done /\ ~trav.failed =>
          \A i \in Wanted : Occurrences(Returned, i.videoKey) = 1

\* C25 witness: a traversal of two pages that ended after the last record of
\* its first page, the cursor's record, was tombstoned, and whose second
\* page returned a record.
C25_CursorRecordTombstoned ==
    /\ trav.done /\ ~trav.failed /\ Len(trav.pages) = 2
    /\ api.route = "delete" /\ api.status = 200
    /\ Len(trav.pages[1]) = PAGE_SIZE
    /\ trav.pages[1][PAGE_SIZE].videoKey = api.key
    /\ \E i \in ItemsOf(table, api.key) : i.deleted = "true" /\ i.partition = "all"
    /\ trav.pages[2] # <<>>

\* C26: of the list calls made after the object of a key was removed, at
\* most one returns the key's record.
C26_ListedAtMostOnceAfterRemoval ==
    \A k \in Keys : listedAfterRemoval[k] <= 1

\* The index records a list call's filter asks for that lie after the
\* call's cursor in the ordering (all of them when it had no cursor).
RemainingAfterCursor ==
    {i \in IndexEntries(table) :
        /\ Matches(i, lastList.camera, lastList.startDate, lastList.endDate)
        /\ lastList.token.given => ScansBefore(lastList.token.value, i)}

C28_TombstoneChangesTwoAttributes ==
    /\ [](\A i \in table : i.deletedAt # NoNum => i.deleted = "true")
    /\ [][del.pc = "step3" /\ del'.tombstoneWritten /\ ItemsOf(table, del.key) # {} =>
             /\ table' \ ItemsOf(table', del.key) = table \ ItemsOf(table, del.key)
             /\ ItemsOf(table', del.key) =
                   {[i EXCEPT !.deleted = "true", !.deletedAt = FloorSeconds(now)] :
                       i \in ItemsOf(table, del.key)}
             /\ Cardinality(ItemsOf(table', del.key)) = 1
             /\ {IndexKeyOf(i) : i \in ItemsOf(table', del.key)} =
                   {IndexKeyOf(i) : i \in ItemsOf(table, del.key)}]_vars

\* C28 witness: the record ingestion wrote has been tombstoned and is still
\* in the index, with its capture time, size, camera and expiry.
C28_IngestedRecordTombstoned ==
    /\ del.pc = "done" /\ del.tombstoneWritten
    /\ \E i \in ItemsOf(table, del.key) :
          /\ i.deleted = "true" /\ i.deletedAt # NoNum
          /\ i.partition = "all"
          /\ i.uploadedAt # NoNum /\ i.ttl = TtlOf(i.uploadedAt)
          /\ i.size = NotifiedSize(del.key)
          /\ Len(putLog[del.key]) > 0

\* What the fetch for the player's present bboxUrl gave: the file's
\* detections when it resolved, none when it failed or the URL is null.
DetectionsOfLatestUrl ==
    IF player.bboxUrl # NoStr /\ player.fetches # <<>>
       /\ player.fetches[Len(player.fetches)].state = "resolved"
    THEN [present |-> TRUE, list |-> BboxFileAt(player.bboxUrl)]
    ELSE NoDetections

\* C29: when no fetch is in flight, the player holds the detections of its
\* latest bboxUrl.
C29_LatestUrlWins ==
    (\A n \in 1..Len(player.fetches) : player.fetches[n].state # "pending")
    => player.detections = DetectionsOfLatestUrl

\* What the list route returns for page n of a traversal from the start:
\* page 0 with no token, page n with the token page n - 1 came with.
RECURSIVE TraversalResult(_)
TraversalResult(n) ==
    IF n = 0 THEN ListVideos(table, NoToken, NoStr, NoNum, NoNum)
    ELSE ListVideos(table, TraversalResult(n - 1).nextToken, NoStr, NoNum, NoNum)

\* C30: whenever the home page shows a page after its fetches succeeded, it
\* has saved as many previous tokens as its page number, it shows the page of
\* the traversal at that number, with that page's hasMore, and its
\* continuation token is the one that page came with, which fetches the
\* next page.
C30_PaginationStateMatchesTraversal ==
    home.mounted /\ ~home.loading /\ ~home.error =>
        /\ Len(home.previousTokens) = home.currentPage
        /\ home.videos = ResponseVideos(TraversalResult(home.currentPage).videos)
        /\ home.hasMore = TraversalResult(home.currentPage).hasMore
        /\ home.continuationToken = TraversalResult(home.currentPage).nextToken

\* C30 witness: back on the second page by Previous from the third, with the
\* first page's token on the stack.
C30_BackFromThirdPage ==
    /\ home.mounted /\ ~home.loading /\ ~home.error
    /\ home.last = "previous" /\ home.currentPage = 1
    /\ Len(home.previousTokens) = 1
    /\ home.videos # <<>> /\ home.hasMore
    /\ home.continuationToken.given
    /\ home.continuationToken # home.previousTokens[1]

=============================================================================
